---- MODULE Spec2Model ----
(***************************************************************************)
(* A model of SPARK (spark/utils.py, spark/app.py): the utility functions  *)
(* (record normalisation, aggregation, schema validation, schema           *)
(* persistence, CSV ingestion) and the batch driver extract_data.          *)
(*                                                                         *)
(* Text is modelled as a sequence of Unicode code points, so that          *)
(* concatenation, emptiness, ordering, case mapping and escaping are       *)
(* computed and not assumed.  Python values are tagged records:            *)
(*   [k |-> "str",  s |-> <<code points>>]                                 *)
(*   [k |-> "None"]        [k |-> "nan"]  (pandas' float NaN)              *)
(*   [k |-> "list", v |-> <<values>>]                                      *)
(*   [k |-> "dict", items |-> << <<key, value>>, ... >>]  (insertion order)*)
(***************************************************************************)
EXTENDS Integers, Sequences, FiniteSets, TLC

VARIABLES
    fn,                   \* the utility function under call ("none" in the session)
    arg,                  \* its argument
    ret,                  \* its return value, or Unset before the call returns
    file,                 \* the content of the file at filepath, or Unset
    schema,               \* st.session_state.schema
    uploaded_data,        \* st.session_state.uploaded_data
    results,              \* st.session_state.results
    html_visualizations,  \* st.session_state.html_visualizations
    pc,                   \* position of extract_data
    df,                   \* extract_data's local copy of the table
    idx,                  \* extract_data's loop index (0-based)
    text,                 \* extract_data's local: the current record's text
    reported,             \* values given to progress_bar.progress, in order
    warnings,             \* record numbers given to st.warning, in order
    calls,                \* record numbers the extractor was called for, in order
    outcome,              \* per record of this run: its text and how its iteration ended
    earlier,              \* the file names of the documents held when this run started
    status_text,          \* what status_text.text(...) shows, or None
    schema_upload,        \* the file in the schema uploader of step 1, or None
    loaded_schema_file,   \* st.session_state.loaded_schema_file
    page,                 \* what the last script run of the app showed and offered
    opened,               \* the visualization document open in the browser, or None
    activeEntity,         \* the document's script: let activeEntity
    container,            \* the document: the child nodes of #text-container
    activeButtons,        \* the document: the buttons whose classList has 'active'
    clicks                \* the entity types of the buttons clicked so far, in order

vars == <<fn, arg, ret, file, schema, uploaded_data, results, html_visualizations,
          pc, df, idx, text, reported, warnings, calls, outcome, earlier,
          status_text, schema_upload, loaded_schema_file, page,
          opened, activeEntity, container, activeButtons, clicks>>

utilVars == <<fn, arg, ret, file>>

sessionVars == <<schema, uploaded_data, results, html_visualizations,
                 pc, df, idx, text, reported, warnings, calls, outcome, earlier,
                 status_text>>

uiVars == <<schema_upload, loaded_schema_file, page>>

docVars == <<opened, activeEntity, container, activeButtons, clicks>>

---------------------------------------------------------------------------
(* Bounds of the model. *)

MaxStrLen == 2
MaxListLen == 3
MaxEntities == 2
MaxClicks == 3

---------------------------------------------------------------------------
(* Python values. *)

PyStr(s) == [k |-> "str", s |-> s]

PyNone == [k |-> "None"]

PyNaN == [k |-> "nan"]

PyList(v) == [k |-> "list", v |-> v]

PyDict(items) == [k |-> "dict", items |-> items]

Unset == [k |-> "unset"]

Raised(e) == [k |-> "raise", exc |-> e]

IsStr(x) == x.k = "str"

IsList(x) == x.k = "list"

IsDict(x) == x.k = "dict"

\* key in d
DictHas(d, key) == \E i \in 1..Len(d.items) : d.items[i][1] = key

\* d[key], for a key of d
DictAt(d, key) ==
    LET i == CHOOSE j \in 1..Len(d.items) : d.items[j][1] = key
    IN  d.items[i][2]

\* d.get(key, default)
DictGet(d, key, default) == IF DictHas(d, key) THEN DictAt(d, key) ELSE default

\* all sequences over S of length at most n
SeqsUpTo(S, n) == UNION {[1..m -> S] : m \in 0..n}

\* str(x): a string is itself, None is "None", NaN is "nan"
PyStrOf(x) ==
    CASE x.k = "str"  -> x.s
      [] x.k = "None" -> <<78,111,110,101>>
      [] x.k = "nan"  -> <<110,97,110>>

\* column and key names
K_title == <<116,105,116,108,101>>

K_abstract == <<97,98,115,116,114,97,99,116>>

---------------------------------------------------------------------------
(* utils.prepare_extraction_text *)

prepare_extraction_text(row) ==
    LET title    == PyStrOf(DictGet(row, K_title, PyStr(<<>>)))
        abstract == PyStrOf(DictGet(row, K_abstract, PyStr(<<>>)))
    IN  IF title # <<>> /\ abstract # <<>>
          THEN <<84,105,116,108,101,58,32>> \o title
               \o <<10,10,65,98,115,116,114,97,99,116,58,32>> \o abstract
        ELSE IF title # <<>>
          THEN <<84,105,116,108,101,58,32>> \o title
        ELSE IF abstract # <<>>
          THEN <<65,98,115,116,114,97,99,116,58,32>> \o abstract
        ELSE <<>>

\* The field values of the rows prepare_extraction_text is called with:
\* text over {T, space}, None, NaN.
FieldChars == {84, 32}

FieldValues ==
    {PyStr(s) : s \in SeqsUpTo(FieldChars, MaxStrLen)} \cup {PyNone, PyNaN}

\* A row holds a title column or not, and an abstract column or not.
NormalizeRows ==
    {PyDict(t \o a) :
        t \in {<<>>} \cup {<< <<K_title, v>> >> : v \in FieldValues},
        a \in {<<>>} \cup {<< <<K_abstract, v>> >> : v \in FieldValues}}

---------------------------------------------------------------------------
(* utils.format_extracted_entities *)

\* Python's str < str: the first differing code point decides, a proper
\* prefix is smaller.
RECURSIVE StrLess(_, _)
StrLess(a, b) ==
    IF b = <<>> THEN FALSE
    ELSE IF a = <<>> THEN TRUE
    ELSE IF Head(a) # Head(b) THEN Head(a) < Head(b)
    ELSE StrLess(Tail(a), Tail(b))

\* set(values)
PySet(values) == {values[i] : i \in 1..Len(values)}

\* sorted(S) for a set of strings: the smallest first, then the rest
RECURSIVE PySorted(_)
PySorted(S) ==
    IF S = {} THEN <<>>
    ELSE LET m == CHOOSE x \in S : \A y \in S \ {x} : StrLess(x, y)
         IN  <<m>> \o PySorted(S \ {m})

\* sep.join(parts)
RECURSIVE PyJoin(_, _)
PyJoin(sep, parts) ==
    IF parts = <<>> THEN <<>>
    ELSE IF Len(parts) = 1 THEN parts[1]
    ELSE parts[1] \o sep \o PyJoin(sep, Tail(parts))

\* FormatValues with sorted(values) in place of sorted(set(values)): a
\* repeated text is kept.
FormatValuesNoDedup(values) ==
    LET RECURSIVE Ins(_, _)
        Ins(q, x) == IF q = <<>> THEN <<x>>
                     ELSE IF StrLess(x, Head(q)) THEN <<x>> \o q
                     ELSE <<Head(q)>> \o Ins(Tail(q), x)
        RECURSIVE SortedList(_)
        SortedList(i) == IF i = 0 THEN <<>> ELSE Ins(SortedList(i - 1), values[i])
    IN  IF values # <<>> THEN PyJoin(<<59,32>>, SortedList(Len(values))) ELSE <<>>

\* the value of one entity type: '; '.join(sorted(set(values))) if values else ''
FormatValues(values) ==
    IF values # <<>>
      THEN PyJoin(<<59,32>>, PySorted(PySet(values)))
      ELSE <<>>

\* entities: a dict of entity type -> list of texts (plain sequences of
\* code-point sequences); the result maps the same keys, in the same order.
format_extracted_entities(entities) ==
    PyDict([i \in 1..Len(entities.items) |->
              <<entities.items[i][1], FormatValues(entities.items[i][2])>>])

\* extracted texts: "a" < "ab" < "b", and "B" before all of them
ExtractedTexts == {<<97>>, <<97,98>>, <<98>>, <<66>>}

EntityTypeKeys == <<<<68,105,115,101,97,115,101>>, <<68,114,117,103>>>>

FormatInputs ==
    {PyDict([i \in 1..n |-> <<EntityTypeKeys[i], l[i]>>]) :
        n \in 1..2, l \in [1..2 -> SeqsUpTo(ExtractedTexts, MaxListLen)]}

---------------------------------------------------------------------------
(* utils.validate_schema *)

K_context == <<99,111,110,116,101,120,116>>

K_entities == <<101,110,116,105,116,105,101,115>>

K_name == <<110,97,109,101>>

K_examples == <<101,120,97,109,112,108,101,115>>

K_description == <<100,101,115,99,114,105,112,116,105,111,110>>

K_prompt_description ==
    <<112,114,111,109,112,116,95,100,101,115,99,114,105,112,116,105,111,110>>

Valid == [ok |-> TRUE, msg |-> ""]

Invalid(msg) == [ok |-> FALSE, msg |-> msg]

\* the check of one entity (the body of the for loop): "" when it passes
EntityErrorNoExamples(entity) ==
    IF ~IsDict(entity) THEN "Each entity must be a dictionary"
    ELSE IF ~DictHas(entity, K_name) THEN "Each entity must have a 'name' field"
    ELSE ""

EntityError(entity) ==
    IF ~IsDict(entity) THEN "Each entity must be a dictionary"
    ELSE IF ~DictHas(entity, K_name) THEN "Each entity must have a 'name' field"
    ELSE IF ~DictHas(entity, K_examples) \/ ~IsList(DictAt(entity, K_examples))
      THEN "Each entity must have an 'examples' list"
    ELSE ""

\* the for loop over schema['entities'], from element i on
RECURSIVE EntitiesError(_, _)
EntitiesError(entities, i) ==
    IF i > Len(entities) THEN ""
    ELSE IF EntityError(entities[i]) # "" THEN EntityError(entities[i])
    ELSE EntitiesError(entities, i + 1)

validate_schema(sch) ==
    IF ~IsDict(sch) THEN Invalid("Schema must be a dictionary")
    ELSE IF ~DictHas(sch, K_context)
      THEN Invalid("Schema must contain 'context' field")
    ELSE IF ~DictHas(sch, K_entities) \/ ~IsList(DictAt(sch, K_entities))
      THEN Invalid("Schema must contain 'entities' list")
    ELSE IF Len(DictAt(sch, K_entities).v) = 0
      THEN Invalid("Schema must contain at least one entity")
    ELSE IF EntitiesError(DictAt(sch, K_entities).v, 1) # ""
      THEN Invalid(EntitiesError(DictAt(sch, K_entities).v, 1))
    ELSE Valid

\* The values validate_schema is called with.  An element of the entities
\* list is a non-dict, or a dict with or without a name (E or F, so names
\* repeat) and with or without examples (a list whose text occurs in the
\* context "c", a list whose text does not, or a value that is no list).
ValidateElements ==
    {PyStr(<<120>>)} \cup
    {PyDict(n \o e) :
        n \in {<<>>, << <<K_name, PyStr(<<69>>)>> >>, << <<K_name, PyStr(<<70>>)>> >>},
        e \in {<<>>,
               << <<K_examples, PyList(<<PyStr(<<99>>)>>)>> >>,
               << <<K_examples, PyList(<<PyStr(<<120>>)>>)>> >>,
               << <<K_examples, PyStr(<<120>>)>> >>}}

ValidateInputs ==
    {PyNone, PyList(<<>>)} \cup
    {PyDict(c \o e) :
        c \in {<<>>, << <<K_context, PyStr(<<99>>)>> >>},
        e \in {<<>>, << <<K_entities, PyStr(<<120>>)>> >>} \cup
              {<< <<K_entities, PyList(l)>> >> :
                  l \in SeqsUpTo(ValidateElements, MaxEntities)}}

---------------------------------------------------------------------------
(* json.dump(schema, f, indent=2, ensure_ascii=False), as save_schema calls *)
(* it, and the UTF-8 file it writes.                                       *)

HexDigits == <<48,49,50,51,52,53,54,55,56,57,97,98,99,100,101,102>>

\* one character inside a JSON string: the quote, the backslash and the
\* control characters are escaped, everything else is written as it is
JsonEscapeCharNoBackslash(c) ==
    CASE c = 34 -> <<92,34>>
      [] c = 10 -> <<92,110>>
      [] c = 13 -> <<92,114>>
      [] c = 9  -> <<92,116>>
      [] c = 8  -> <<92,98>>
      [] c = 12 -> <<92,102>>
      [] c < 32 /\ c \notin {8, 9, 10, 12, 13} ->
            <<92,117,48,48, HexDigits[(c \div 16) + 1], HexDigits[(c % 16) + 1]>>
      [] OTHER -> <<c>>

JsonEscapeChar(c) ==
    CASE c = 34 -> <<92,34>>
      [] c = 92 -> <<92,92>>
      [] c = 10 -> <<92,110>>
      [] c = 13 -> <<92,114>>
      [] c = 9  -> <<92,116>>
      [] c = 8  -> <<92,98>>
      [] c = 12 -> <<92,102>>
      [] c < 32 /\ c \notin {8, 9, 10, 12, 13} ->
            <<92,117,48,48, HexDigits[(c \div 16) + 1], HexDigits[(c % 16) + 1]>>
      [] OTHER -> <<c>>

\* the concatenation of parts[lo..hi]
RECURSIVE Concat(_, _, _)
Concat(parts, lo, hi) ==
    IF lo > hi THEN <<>>
    ELSE IF lo = hi THEN parts[lo]
    ELSE Concat(parts, lo, (lo + hi) \div 2) \o Concat(parts, ((lo + hi) \div 2) + 1, hi)

JsonEscape(str) == Concat([i \in 1..Len(str) |-> JsonEscapeChar(str[i])], 1, Len(str))

JsonString(str) == <<34>> \o JsonEscape(str) \o <<34>>

\* a newline and the indentation of nesting level lvl (indent=2)
NewlineIndent(lvl) == <<10>> \o [i \in 1..(2 * lvl) |-> 32]

RECURSIVE JsonDump(_, _)
JsonDump(x, lvl) ==
    CASE x.k = "str"  -> JsonString(x.s)
      [] x.k = "None" -> <<110,117,108,108>>
      [] x.k = "list" ->
            IF x.v = <<>> THEN <<91,93>>
            ELSE <<91>>
                 \o PyJoin(<<44>>, [i \in 1..Len(x.v) |->
                        NewlineIndent(lvl + 1) \o JsonDump(x.v[i], lvl + 1)])
                 \o NewlineIndent(lvl) \o <<93>>
      [] x.k = "dict" ->
            IF x.items = <<>> THEN <<123,125>>
            ELSE <<123>>
                 \o PyJoin(<<44>>, [i \in 1..Len(x.items) |->
                        NewlineIndent(lvl + 1) \o JsonString(x.items[i][1])
                        \o <<58,32>> \o JsonDump(x.items[i][2], lvl + 1)])
                 \o NewlineIndent(lvl) \o <<125>>

\* the bytes of one code point in UTF-8 (a Unicode scalar value)
Utf8Char(c) ==
    IF c < 128 THEN <<c>>
    ELSE IF c < 2048 THEN <<192 + (c \div 64), 128 + (c % 64)>>
    ELSE IF c < 65536
      THEN <<224 + (c \div 4096), 128 + ((c \div 64) % 64), 128 + (c % 64)>>
    ELSE <<240 + (c \div 262144), 128 + ((c \div 4096) % 64),
           128 + ((c \div 64) % 64), 128 + (c % 64)>>

Utf8Encode(str) == Concat([i \in 1..Len(str) |-> Utf8Char(str[i])], 1, Len(str))

\* the code point whose first byte is b[i]; U+FFFD when bytes are missing
Utf8CharAt(b, i) ==
    IF b[i] < 128 THEN b[i]
    ELSE IF b[i] < 224
      THEN IF i + 1 <= Len(b) THEN (b[i] - 192) * 64 + (b[i + 1] - 128) ELSE 65533
    ELSE IF b[i] < 240
      THEN IF i + 2 <= Len(b)
             THEN (b[i] - 224) * 4096 + (b[i + 1] - 128) * 64 + (b[i + 2] - 128)
             ELSE 65533
    ELSE IF i + 3 <= Len(b)
      THEN (b[i] - 240) * 262144 + (b[i + 1] - 128) * 4096
           + (b[i + 2] - 128) * 64 + (b[i + 3] - 128)
    ELSE 65533

\* the text of a UTF-8 byte sequence: one code point per byte that is not a
\* continuation byte (10xxxxxx)
Utf8Decode(b) ==
    Concat([i \in 1..Len(b) |->
              IF b[i] >= 128 /\ b[i] < 192 THEN <<>> ELSE <<Utf8CharAt(b, i)>>],
           1, Len(b))

\* save_schema: the content of the file at filepath after the call
save_schema(sch) == Utf8Encode(JsonDump(sch, 0))

---------------------------------------------------------------------------
(* json.load, as load_schema calls it: a result is [ok, v, i], the value   *)
(* and the position after it, or [ok |-> FALSE] for a JSONDecodeError.     *)

Parsed(v, i) == [ok |-> TRUE, v |-> v, i |-> i]

ParseError == [ok |-> FALSE]

JsonWhitespace == {32, 9, 10, 13}

RECURSIVE SkipWs(_, _)
SkipWs(s, i) ==
    IF i <= Len(s) /\ s[i] \in JsonWhitespace THEN SkipWs(s, i + 1) ELSE i

\* the value of a hexadecimal digit, -1 for any other character
HexValue(c) ==
    IF c >= 48 /\ c <= 57 THEN c - 48
    ELSE IF c >= 97 /\ c <= 102 THEN c - 87
    ELSE IF c >= 65 /\ c <= 70 THEN c - 55
    ELSE -1

\* the character a backslash escape stands for, -1 for an invalid escape
Unescaped(c) ==
    CASE c = 34  -> 34
      [] c = 92  -> 92
      [] c = 47  -> 47
      [] c = 98  -> 8
      [] c = 102 -> 12
      [] c = 110 -> 10
      [] c = 114 -> 13
      [] c = 116 -> 9
      [] OTHER   -> -1

\* the string whose opening quote is before position i; acc is the text so far
RECURSIVE ScanString(_, _, _)
ScanString(s, i, acc) ==
    IF i > Len(s) THEN ParseError
    ELSE IF s[i] = 34 THEN Parsed(PyStr(acc), i + 1)
    ELSE IF s[i] = 92 THEN
        IF i + 1 > Len(s) THEN ParseError
        ELSE IF s[i + 1] = 117 THEN
            IF i + 5 > Len(s) \/ \E j \in 2..5 : HexValue(s[i + j]) < 0
              THEN ParseError
              ELSE ScanString(s, i + 6,
                       Append(acc, HexValue(s[i + 2]) * 4096 + HexValue(s[i + 3]) * 256
                                   + HexValue(s[i + 4]) * 16 + HexValue(s[i + 5])))
        ELSE IF Unescaped(s[i + 1]) < 0 THEN ParseError
        ELSE ScanString(s, i + 2, Append(acc, Unescaped(s[i + 1])))
    ELSE IF s[i] < 32 THEN ParseError
    ELSE ScanString(s, i + 1, Append(acc, s[i]))

\* d[key] = value on the items of a dict: a repeated key keeps its place
DictSet(items, key, value) ==
    IF \E j \in 1..Len(items) : items[j][1] = key
      THEN [j \in 1..Len(items) |->
              IF items[j][1] = key THEN <<key, value>> ELSE items[j]]
      ELSE Append(items, <<key, value>>)

RECURSIVE ParseValue(_, _)
RECURSIVE ParseArrayItems(_, _, _)
RECURSIVE ParseObjectItems(_, _, _)

\* the value that starts at position i
ParseValue(s, i) ==
    IF i > Len(s) THEN ParseError
    ELSE IF s[i] = 34 THEN ScanString(s, i + 1, <<>>)
    ELSE IF s[i] = 123 THEN
        LET j == SkipWs(s, i + 1)
        IN  IF j <= Len(s) /\ s[j] = 125 THEN Parsed(PyDict(<<>>), j + 1)
            ELSE ParseObjectItems(s, j, <<>>)
    ELSE IF s[i] = 91 THEN
        LET j == SkipWs(s, i + 1)
        IN  IF j <= Len(s) /\ s[j] = 93 THEN Parsed(PyList(<<>>), j + 1)
            ELSE ParseArrayItems(s, j, <<>>)
    ELSE IF i + 3 <= Len(s) /\ SubSeq(s, i, i + 3) = <<110,117,108,108>>
      THEN Parsed(PyNone, i + 4)
    ELSE ParseError

\* the rest of an array from the value at position i on; acc is its items so far
ParseArrayItems(s, i, acc) ==
    LET item == ParseValue(s, i)
    IN  IF ~item.ok THEN ParseError
        ELSE LET j == SkipWs(s, item.i)
             IN  IF j > Len(s) THEN ParseError
                 ELSE IF s[j] = 93 THEN Parsed(PyList(Append(acc, item.v)), j + 1)
                 ELSE IF s[j] = 44
                   THEN ParseArrayItems(s, SkipWs(s, j + 1), Append(acc, item.v))
                 ELSE ParseError

\* the rest of an object from the key at position i on; acc is its items so far
ParseObjectItems(s, i, acc) ==
    IF i > Len(s) \/ s[i] # 34 THEN ParseError
    ELSE LET key == ScanString(s, i + 1, <<>>)
         IN  IF ~key.ok THEN ParseError
             ELSE LET c == SkipWs(s, key.i)
                  IN  IF c > Len(s) \/ s[c] # 58 THEN ParseError
                      ELSE LET val == ParseValue(s, SkipWs(s, c + 1))
                           IN  IF ~val.ok THEN ParseError
                               ELSE LET j == SkipWs(s, val.i)
                                        items == DictSet(acc, key.v.s, val.v)
                                    IN  IF j > Len(s) THEN ParseError
                                        ELSE IF s[j] = 125
                                          THEN Parsed(PyDict(items), j + 1)
                                        ELSE IF s[j] = 44
                                          THEN ParseObjectItems(s, SkipWs(s, j + 1), items)
                                        ELSE ParseError

\* json.loads: one value, with nothing but whitespace around it
JsonLoads(s) ==
    LET r == ParseValue(s, SkipWs(s, 1))
    IN  IF r.ok /\ SkipWs(s, r.i) > Len(s) THEN r.v ELSE Raised("JSONDecodeError")

\* load_schema: the value read from a file of the given content
load_schema(content) == JsonLoads(Utf8Decode(content))

\* The schemas save_schema is called with: a context over characters that
\* JSON escapes (quote, backslash, newline, a control character) or that
\* UTF-8 writes in one, two or three bytes; an optional prompt_description;
\* entities with and without a description.
SchemaChars == {34, 92, 10, 31, 97, 233, 8364}

SchemaEntities ==
    { PyDict(<< <<K_name, PyStr(<<69>>)>>,
                <<K_examples, PyList(<<PyStr(<<97>>)>>)>> >>),
      PyDict(<< <<K_name, PyStr(<<69,34>>)>>,
                <<K_description, PyStr(<<>>)>>,
                <<K_examples, PyList(<<>>)>> >>),
      PyDict(<< <<K_name, PyStr(<<92>>)>>,
                <<K_description, PyStr(<<233,10>>)>>,
                <<K_examples, PyList(<<PyStr(<<97>>), PyStr(<<8364,92>>)>>)>> >>) }

SchemaValues ==
    {PyDict(<< <<K_context, PyStr(c)>> >> \o p \o << <<K_entities, PyList(es)>> >>) :
        c \in SeqsUpTo(SchemaChars, MaxStrLen),
        p \in {<<>>, << <<K_prompt_description, PyStr(<<97>>)>> >>},
        es \in SeqsUpTo(SchemaEntities, MaxEntities)}

---------------------------------------------------------------------------
(* utils.parse_csv_file.  The file is given as pd.read_csv sees it: a      *)
(* header line of column names and data lines of cells.  A table is        *)
(* [k |-> "DataFrame", columns |-> <<names>>, data |-> <<rows of values>>].*)

DataFrame(columns, data) == [k |-> "DataFrame", columns |-> columns, data |-> data]

\* pd.read_csv: a name the header repeats gets ".1", ".2", ...; an empty
\* cell is NaN
read_csv(csv) ==
    DataFrame(
        [i \in 1..Len(csv.header) |->
            LET n == Cardinality({j \in 1..(i - 1) : csv.header[j] = csv.header[i]})
            IN  IF n = 0 THEN csv.header[i] ELSE csv.header[i] \o <<46, 48 + n>>],
        [r \in 1..Len(csv.lines) |->
            [i \in 1..Len(csv.lines[r]) |->
                IF csv.lines[r][i] = <<>> THEN PyNaN ELSE PyStr(csv.lines[r][i])]])

\* str.lower() with the case mapping left out
PyLowerIdentity(str) == str

\* str.lower(): A..Z become a..z
PyLower(str) ==
    [i \in 1..Len(str) |-> IF str[i] >= 65 /\ str[i] <= 90 THEN str[i] + 32 ELSE str[i]]

\* name in df.columns
HasColumn(frame, name) == \E i \in 1..Len(frame.columns) : frame.columns[i] = name

parse_csv_file(csv) ==
    LET read == read_csv(csv)
        lowered == DataFrame([i \in 1..Len(read.columns) |-> PyLower(read.columns[i])],
                             read.data)
    IN  IF ~HasColumn(lowered, K_title) \/ ~HasColumn(lowered, K_abstract)
          THEN Raised("ValueError: CSV must contain 'title' and 'abstract' columns")
          ELSE lowered

MaxColumns == 3
MaxRecords == 2

\* header names: title, Title, abstract, ABSTRACT, other, and " title"
HeaderNames ==
    {K_title, <<84,105,116,108,101>>, K_abstract, <<65,66,83,84,82,65,67,84>>,
     <<111,116,104,101,114>>, <<32,116,105,116,108,101>>}

\* a data line holds the same cell in every column: "x", or nothing
CsvCells == {<<120>>, <<>>}

CsvInputs ==
    {[header |-> h, lines |-> [r \in 1..Len(c) |-> [i \in 1..Len(h) |-> c[r]]]] :
        h \in SeqsUpTo(HeaderNames, MaxColumns) \ {<<>>},
        c \in SeqsUpTo(CsvCells, MaxRecords)}

---------------------------------------------------------------------------
(* The session before any upload or run: app.initialize_session_state. *)

initialize_session_state ==
    /\ schema = PyDict(<< <<K_context, PyStr(<<>>)>>,
                          <<K_prompt_description, PyStr(<<>>)>>,
                          <<K_entities, PyList(<<>>)>> >>)
    /\ uploaded_data = PyNone
    /\ results = PyNone
    /\ html_visualizations = <<>>

\* extract_data is not running
NotRunning ==
    /\ pc = "idle"
    /\ df = PyNone
    /\ idx = 0
    /\ text = <<>>
    /\ reported = <<>>
    /\ warnings = <<>>
    /\ calls = <<>>
    /\ outcome = <<>>
    /\ earlier = {}
    /\ status_text = PyNone

\* no script run of the app has taken place
NoPage ==
    /\ schema_upload = PyNone
    /\ loaded_schema_file = PyNone
    /\ page = Unset

\* no visualization document is open
NoDocument ==
    /\ opened = PyNone
    /\ activeEntity = PyNone
    /\ container = <<>>
    /\ activeButtons = {}
    /\ clicks = <<>>

---------------------------------------------------------------------------
(* Tables as extract_data uses them. *)

\* df[name] = value: every row of the column, or a new last column
SetColumn(frame, name, value) ==
    IF HasColumn(frame, name)
      THEN DataFrame(frame.columns,
               [r \in 1..Len(frame.data) |->
                   [i \in 1..Len(frame.columns) |->
                       IF frame.columns[i] = name THEN value ELSE frame.data[r][i]]])
      ELSE DataFrame(Append(frame.columns, name),
               [r \in 1..Len(frame.data) |-> Append(frame.data[r], value)])

\* df.at[r - 1, name] = value (r is the 1-based row)
SetCell(frame, r, name, value) ==
    DataFrame(frame.columns,
        [q \in 1..Len(frame.data) |->
            [i \in 1..Len(frame.columns) |->
                IF q = r /\ frame.columns[i] = name THEN value ELSE frame.data[q][i]]])

\* the row that df.iterrows() yields for the 1-based row r
RowSeries(frame, r) ==
    PyDict([i \in 1..Len(frame.columns) |-> <<frame.columns[i], frame.data[r][i]>>])

\* df.at[r - 1, name]
CellAt(frame, r, name) == DictAt(RowSeries(frame, r), name)

---------------------------------------------------------------------------
(* The external extractor (langextract.extract) and its results.  An       *)
(* extraction is [extraction_class, extraction_text, char_interval]; the   *)
(* interval is [start_pos, end_pos], or None for a text the extractor did  *)
(* not locate in the record.                                               *)

Extraction(class, txt, interval) ==
    [extraction_class |-> class, extraction_text |-> txt, char_interval |-> interval]

CharInterval(start, end) == [k |-> "CharInterval", start_pos |-> start, end_pos |-> end]

N_Disease == <<68,105,115,101,97,115,101>>

N_Drug == <<68,114,117,103>>

N_Other == <<79,116,104,101,114>>

\* what extract(...) returns for a record: no extraction; repeated and
\* unsorted texts with one of a class the schema does not name; a text
\* without an interval; one extraction of the second entity type
ExtractorResults ==
    { <<>>,
      << Extraction(N_Disease, <<98>>, CharInterval(7, 8)),
         Extraction(N_Disease, <<97>>, CharInterval(0, 1)),
         Extraction(N_Other, <<97>>, CharInterval(0, 1)),
         Extraction(N_Disease, <<98>>, CharInterval(7, 8)) >>,
      << Extraction(N_Disease, <<97>>, PyNone) >>,
      << Extraction(N_Drug, <<97>>, CharInterval(0, 1)) >> }

\* the outcomes of one call: a result, or an exception
ExtractorOutcomes ==
    {[k |-> "result", extractions |-> r] : r \in ExtractorResults}
    \cup {Raised("extract")}

---------------------------------------------------------------------------
(* app.generate_interactive_html *)

\* the palette, each color as its characters: '#FFB6C1', '#87CEEB', '#90EE90',
\* '#FFD700', '#DDA0DD', '#FFA07A', '#98FB98', '#DEB887', '#F0E68C', '#E0BBE4'
colors ==
    << <<35,70,70,66,54,67,49>>,
       <<35,56,55,67,69,69,66>>,
       <<35,57,48,69,69,57,48>>,
       <<35,70,70,68,55,48,48>>,
       <<35,68,68,65,48,68,68>>,
       <<35,70,70,65,48,55,65>>,
       <<35,57,56,70,66,57,56>>,
       <<35,68,69,66,56,56,55>>,
       <<35,70,48,69,54,56,67>>,
       <<35,69,48,66,66,69,52>> >>

\* entity_groups: the extractions of each class, in order of first appearance
RECURSIVE EntityGroups(_, _)
EntityGroups(extractions, n) ==
    IF n = 0 THEN <<>>
    ELSE LET groups == EntityGroups(extractions, n - 1)
             e == extractions[n]
             span == [text |-> e.extraction_text,
                      start |-> e.char_interval.start_pos,
                      end |-> e.char_interval.end_pos]
         IN  DictSet(groups, e.extraction_class,
                 Append(DictGet(PyDict(groups), e.extraction_class, <<>>), span))

\* {keys[i]: values[i] for i in 1..n}: a repeated key keeps its last value
RECURSIVE DictOfPairs(_, _, _)
DictOfPairs(keys, values, n) ==
    IF n = 0 THEN <<>>
    ELSE DictSet(DictOfPairs(keys, values, n - 1), keys[n], values[n])

\* the document of a record: the data the template embeds (the title number,
\* the text, entities and colors), or the AttributeError of an extraction
\* whose char_interval is None
generate_interactive_html(record_number, txt, result, entity_names) ==
    IF \E i \in 1..Len(result.extractions) : result.extractions[i].char_interval = PyNone
      THEN Raised("AttributeError")
      ELSE LET groups == PyDict(EntityGroups(result.extractions, Len(result.extractions)))
               n == Len(entity_names)
           IN  [k |-> "html",
                record_number |-> record_number,
                text |-> txt,
                entities |-> DictOfPairs(entity_names,
                                 [i \in 1..n |-> DictGet(groups, entity_names[i], <<>>)], n),
                colors |-> DictOfPairs(entity_names,
                                 [i \in 1..n |-> colors[((i - 1) % Len(colors)) + 1]], n)]

---------------------------------------------------------------------------
(* app.extract_data, started by the "Start Extraction" button of           *)
(* render_step4_execution.  Its steps are the points between which the     *)
(* progress bar, the warnings and the extractor are observable: the start  *)
(* (up to the loop), the head of an iteration (up to the try), the try     *)
(* block, and the lines after the loop.                                    *)

\* entity_names = [entity['name'] for entity in schema['entities']]
EntityNames(sch) ==
    [i \in 1..Len(DictAt(sch, K_entities).v) |->
        DictAt(DictAt(sch, K_entities).v[i], K_name).s]

\* entity["description"] raises KeyError for some entity
DescriptionKeyError(sch) ==
    \E i \in 1..Len(DictAt(sch, K_entities).v) :
        ~DictHas(DictAt(sch, K_entities).v[i], K_description)

\* for entity_name in entity_names: df[entity_name] = ''
RECURSIVE InitResultColumns(_, _, _)
InitResultColumns(frame, names, n) ==
    IF n = 0 THEN frame
    ELSE SetColumn(InitResultColumns(frame, names, n - 1), names[n], PyStr(<<>>))

\* st.session_state.html_visualizations = [] with the assignment left out
ClearedVisualizationsKept == html_visualizations

\* st.session_state.html_visualizations = []
ClearedVisualizations == <<>>

\* progress = (idx + 1) / total_records with idx in place of idx + 1
ProgressOfIdx(i, total_records) == [num |-> i, den |-> total_records]

\* progress = (idx + 1) / total_records, as a fraction
Progress(i, total_records) == [num |-> i + 1, den |-> total_records]

\* .encode("utf-8", errors="ignore").decode("utf-8", errors="ignore"): the
\* surrogate code points, which UTF-8 cannot encode, are dropped
EncodeIgnore(str) ==
    LET Encodable(c) == ~(c >= 55296 /\ c <= 57343)
    IN  SelectSeq(str, Encodable)
\* entity_extractions[entity_name] without the test of the class: the
\* texts of all extractions
TextsOfAnyClass(extractions, name) ==
    [i \in 1..Len(extractions) |-> extractions[i].extraction_text]

\* the extraction_text of the extractions of class name, in order
TextsOfClass(extractions, name) ==
    LET Texts(n) == [i \in 1..n |-> extractions[i].extraction_text]
        RECURSIVE Pick(_)
        Pick(n) == IF n = 0 THEN <<>>
                   ELSE IF extractions[n].extraction_class = name
                     THEN Append(Pick(n - 1), extractions[n].extraction_text)
                   ELSE Pick(n - 1)
    IN  Pick(Len(extractions))

\* for entity_name in entity_names: if extracted_texts:
\*     df.at[idx, entity_name] = '; '.join(sorted(set(extracted_texts)))
RECURSIVE StoreResults(_, _, _, _, _)
StoreResults(frame, r, names, extractions, n) ==
    IF n = 0 THEN frame
    ELSE LET before == StoreResults(frame, r, names, extractions, n - 1)
             extracted_texts == TextsOfClass(extractions, names[n])
         IN  IF extracted_texts # <<>>
               THEN SetCell(before, r, names[n],
                            PyStr(PyJoin(<<59,32>>, PySorted(PySet(extracted_texts)))))
               ELSE before

\* str(n) for n >= 0
RECURSIVE Decimal(_)
Decimal(n) == IF n < 10 THEN <<48 + n>> ELSE Decimal(n \div 10) \o <<48 + (n % 10)>>

\* the loop index after an iteration that ended in the except block, with
\* break in place of continue
IdxAfterErrorBreak(i, total_records) == total_records

\* the loop index after an iteration that ended in the except block (continue)
IdxAfterError(i, total_records) == i + 1

\* "Start Extraction" is offered (render_step4_execution) and no run is under way
CanStart ==
    /\ pc \in {"idle", "done", "crashed"}
    /\ DictAt(schema, K_entities).v # <<>>
    /\ uploaded_data # PyNone

\* st.warning(f"Error processing record {idx + 1}: ...") with idx in place
\* of idx + 1
WarningRecordOfIdx(i) == i

\* st.warning(f"Error processing record {idx + 1}: {str(e)}"): the record
\* number the warning names
WarningRecord(i) == i + 1

\* status_text.text(f"Processing record {idx + 1} of {total_records}")
ProcessingText(i, total_records) ==
    [k |-> "Processing record", record |-> i + 1, of |-> total_records]

\* status_text.text(f"Completed! Processed {total_records} records.")
CompletedText(total_records) == [k |-> "Completed! Processed", records |-> total_records]

\* extract_data up to the for loop, on the session's schema sch
RunStart(sch) ==
    /\ idx' = 0
    /\ text' = <<>>
    /\ warnings' = <<>>
    /\ calls' = <<>>
    /\ outcome' = <<>>
    /\ earlier' = {html_visualizations[i].filename : i \in 1..Len(html_visualizations)}
    /\ status_text' = PyNone
    /\ IF DescriptionKeyError(sch)
         THEN /\ pc' = "crashed"
              /\ df' = uploaded_data
              /\ reported' = <<>>
              /\ UNCHANGED html_visualizations
         ELSE /\ pc' = "loop"
              /\ df' = InitResultColumns(uploaded_data, EntityNames(sch),
                                         Len(EntityNames(sch)))
              /\ html_visualizations' = ClearedVisualizations
              /\ reported' = <<[num |-> 0, den |-> 1]>>
    /\ UNCHANGED <<uploaded_data, results>>

\* the "Start Extraction" button is pressed on a page whose schema no widget
\* has just edited
StartExtraction ==
    /\ CanStart
    /\ RunStart(schema)
    /\ UNCHANGED schema
    /\ UNCHANGED <<utilVars, uiVars, docVars>>

\* the head of an iteration: progress, the record's text, the skip of an
\* empty text
BeginRecord ==
    /\ pc = "loop"
    /\ idx < Len(df.data)
    /\ reported' = Append(reported, Progress(idx, Len(df.data)))
    /\ status_text' = ProcessingText(idx, Len(df.data))
    /\ LET t == EncodeIgnore(prepare_extraction_text(RowSeries(df, idx + 1)))
       IN  /\ text' = t
           /\ IF t = <<>>
                THEN /\ pc' = "loop"
                     /\ idx' = idx + 1
                     /\ outcome' = Append(outcome, [kind |-> "skipped", text |-> t])
                ELSE /\ pc' = "try"
                     /\ UNCHANGED <<idx, outcome>>
    /\ UNCHANGED <<schema, uploaded_data, results, html_visualizations, df,
                   warnings, calls, earlier>>
    /\ UNCHANGED <<utilVars, uiVars, docVars>>

\* the try block of an iteration, with its except.  The session's schema
\* always holds a prompt_description (initialize_session_state, and the
\* schema upload adds a missing one), so the arguments of extract evaluate.
ExtractRecord ==
    /\ pc = "try"
    /\ pc' = "loop"
    /\ \E result \in ExtractorOutcomes :
          /\ calls' = Append(calls, idx + 1)
          /\ IF result.k = "raise"
               THEN /\ warnings' = Append(warnings, WarningRecord(idx))
                    /\ idx' = IdxAfterError(idx, Len(df.data))
                    /\ outcome' = Append(outcome, [kind |-> "failed", text |-> text])
                    /\ UNCHANGED <<df, html_visualizations>>
               ELSE LET names == EntityNames(schema)
                        html_content ==
                            generate_interactive_html(idx + 1, text, result, names)
                    IN  /\ df' = StoreResults(df, idx + 1, names,
                                              result.extractions, Len(names))
                        /\ IF html_content.k = "raise"
                             THEN /\ warnings' = Append(warnings, WarningRecord(idx))
                                  /\ idx' = IdxAfterError(idx, Len(df.data))
                                  /\ outcome' = Append(outcome,
                                        [kind |-> "failed", text |-> text])
                                  /\ UNCHANGED html_visualizations
                             ELSE /\ html_visualizations' =
                                        Append(html_visualizations,
                                            [filename |-> Decimal(idx + 1)
                                                          \o <<46,104,116,109,108>>,
                                             content |-> html_content])
                                  /\ idx' = idx + 1
                                  /\ outcome' = Append(outcome,
                                        [kind |-> "ok", text |-> text,
                                         result |-> result])
                                  /\ UNCHANGED warnings
    /\ UNCHANGED <<schema, uploaded_data, results, text, reported, earlier,
                   status_text>>
    /\ UNCHANGED <<utilVars, uiVars, docVars>>

\* after the loop: progress 1.0, and the results are stored
FinishExtraction ==
    /\ pc = "loop"
    /\ idx >= Len(df.data)
    /\ reported' = Append(reported, [num |-> 1, den |-> 1])
    /\ status_text' = CompletedText(Len(df.data))
    /\ results' = df
    /\ pc' = "done"
    /\ UNCHANGED <<schema, uploaded_data, html_visualizations, df, idx, text,
                   warnings, calls, outcome, earlier>>
    /\ UNCHANGED <<utilVars, uiVars, docVars>>

\* the records of an uploaded file: title and abstract; neither; a title
\* and an empty cell (NaN)
Records ==
    { <<PyStr(<<84>>), PyStr(<<65>>)>>,
      <<PyStr(<<>>), PyStr(<<>>)>>,
      <<PyStr(<<84>>), PyNaN>> }

Datasets ==
    {DataFrame(<<K_title, K_abstract>>, rows) : rows \in SeqsUpTo(Records, MaxRecords)}

Entity(name, description, examples) ==
    PyDict(<< <<K_name, PyStr(name)>> >> \o description
           \o << <<K_examples, PyList(examples)>> >>)

\* the session's schema when a run starts: validate_schema accepts it; an
\* entity has a description, or none
SessionSchemas ==
    {PyDict(<< <<K_context, PyStr(<<99>>)>>,
               <<K_prompt_description, PyStr(<<>>)>>,
               <<K_entities, PyList(es)>> >>) :
        es \in { << Entity(N_Disease, << <<K_description, PyStr(<<100>>)>> >>,
                           <<PyStr(<<99>>)>>) >>,
                 << Entity(N_Disease, << <<K_description, PyStr(<<100>>)>> >>,
                           <<PyStr(<<99>>)>>),
                    Entity(N_Drug, << <<K_description, PyStr(<<>>)>> >>, <<>>) >>,
                 << Entity(N_Disease, << <<K_description, PyStr(<<100>>)>> >>,
                           <<PyStr(<<99>>)>>),
                    Entity(N_Drug, <<>>, <<PyStr(<<99>>)>>) >> }}

Init ==
    /\ fn = "none"
    /\ arg = Unset
    /\ ret = Unset
    /\ file = Unset
    /\ schema \in SessionSchemas
    /\ uploaded_data \in Datasets
    /\ results = PyNone
    /\ html_visualizations = <<>>
    /\ NotRunning
    /\ NoPage
    /\ NoDocument

Next ==
    \/ StartExtraction
    \/ BeginRecord
    \/ ExtractRecord
    \/ FinishExtraction

Spec == Init /\ [][Next]_vars

---------------------------------------------------------------------------
(* The utility functions, each called once on an argument of its domain. *)

UtilInit(name, inputs) ==
    /\ fn = name
    /\ arg \in inputs
    /\ ret = Unset
    /\ file = Unset
    /\ initialize_session_state
    /\ NotRunning
    /\ NoPage
    /\ NoDocument

Call(name, value) ==
    /\ fn = name
    /\ ret = Unset
    /\ ret' = value
    /\ UNCHANGED <<fn, arg, file>>
    /\ UNCHANGED <<sessionVars, uiVars, docVars>>

CallNormalize == Call("prepare_extraction_text", PyStr(prepare_extraction_text(arg)))

SpecNormalize ==
    UtilInit("prepare_extraction_text", NormalizeRows) /\ [][CallNormalize]_vars

CallFormat == Call("format_extracted_entities", format_extracted_entities(arg))

SpecFormat ==
    UtilInit("format_extracted_entities", FormatInputs) /\ [][CallFormat]_vars

CallValidate == Call("validate_schema", validate_schema(arg))

SpecValidate ==
    UtilInit("validate_schema", ValidateInputs) /\ [][CallValidate]_vars

---------------------------------------------------------------------------
(* Properties of prepare_extraction_text. *)

\* a field as the documentation reads it: an absent or None field is empty text
FieldAsText(row, key) ==
    IF ~DictHas(row, key) \/ DictAt(row, key) = PyNone THEN <<>>
    ELSE DictAt(row, key).s

\* the field is a non-empty string, absent, or None
FieldInDomain(row, key) ==
    \/ ~DictHas(row, key)
    \/ DictAt(row, key) = PyNone
    \/ IsStr(DictAt(row, key)) /\ DictAt(row, key).s # <<>>

\* C1: over rows whose title and abstract are each a non-empty string, absent
\* or None, the result is "Title: T\n\nAbstract: A" when both are present,
\* "Title: T" when only the title is, "Abstract: A" when only the abstract
\* is, and "" when neither is: an absent or None field counts as empty text.
C1_NormalizeTotal ==
    (/\ fn = "prepare_extraction_text"
     /\ ret # Unset
     /\ FieldInDomain(arg, K_title)
     /\ FieldInDomain(arg, K_abstract))
    => LET T == FieldAsText(arg, K_title)
           A == FieldAsText(arg, K_abstract)
       IN  ret = PyStr(CASE T # <<>> /\ A # <<>> ->
                              <<84,105,116,108,101,58,32>> \o T
                              \o <<10,10,65,98,115,116,114,97,99,116,58,32>> \o A
                         [] T # <<>> /\ A = <<>> -> <<84,105,116,108,101,58,32>> \o T
                         [] T = <<>> /\ A # <<>> ->
                              <<65,98,115,116,114,97,99,116,58,32>> \o A
                         [] OTHER -> <<>>)

---------------------------------------------------------------------------
(* Properties of format_extracted_entities. *)

\* a comes before b in code-point order
CodePointBefore(a, b) ==
    \E i \in 1..Len(b) :
        /\ \A j \in 1..(i - 1) : j <= Len(a) /\ a[j] = b[j]
        /\ (i > Len(a) \/ a[i] < b[i])

\* the texts of S, each once, in ascending code-point order
Ascending(S) ==
    CHOOSE q \in [1..Cardinality(S) -> S] :
        \A i \in 1..(Cardinality(S) - 1) : CodePointBefore(q[i], q[i + 1])

\* q[1]; q[2]; ...; q[n], built from the left
RECURSIVE SemicolonJoined(_, _)
SemicolonJoined(q, n) ==
    IF n = 0 THEN <<>>
    ELSE IF n = 1 THEN q[1]
    ELSE SemicolonJoined(q, n - 1) \o <<59,32>> \o q[n]

\* C2: every entity type is mapped to the "; "-join of the distinct texts of
\* its list in ascending code-point order, and to "" for an empty list; two
\* lists holding the same set of texts give the same value, whatever their
\* order or repetitions.
C2_FormatSortedDistinct ==
    (fn = "format_extracted_entities" /\ ret # Unset) =>
        /\ Len(ret.items) = Len(arg.items)
        /\ \A i \in 1..Len(arg.items) :
              LET values == arg.items[i][2]
              IN  /\ ret.items[i][1] = arg.items[i][1]
                  /\ ret.items[i][2] =
                        IF values = <<>> THEN <<>>
                        ELSE SemicolonJoined(Ascending(PySet(values)),
                                             Cardinality(PySet(values)))
        /\ \A i, j \in 1..Len(arg.items) :
              PySet(arg.items[i][2]) = PySet(arg.items[j][2])
                => ret.items[i][2] = ret.items[j][2]

\* two entity types whose lists differ in order and repetitions and hold the
\* same two or more texts have been formatted
C2_Witness ==
    /\ fn = "format_extracted_entities"
    /\ ret # Unset
    /\ Len(arg.items) = 2
    /\ arg.items[1][2] # arg.items[2][2]
    /\ Len(arg.items[1][2]) # Len(arg.items[2][2])
    /\ PySet(arg.items[1][2]) = PySet(arg.items[2][2])
    /\ Cardinality(PySet(arg.items[1][2])) >= 2
    /\ ret.items[1][2] = ret.items[2][2]

---------------------------------------------------------------------------
(* Properties of validate_schema. *)

\* the schema passes every check the documentation lists
SchemaWellFormed(sch) ==
    /\ IsDict(sch)
    /\ DictHas(sch, K_context)
    /\ DictHas(sch, K_entities)
    /\ IsList(DictAt(sch, K_entities))
    /\ Len(DictAt(sch, K_entities).v) >= 1
    /\ \A i \in 1..Len(DictAt(sch, K_entities).v) :
          LET e == DictAt(sch, K_entities).v[i]
          IN  /\ IsDict(e)
              /\ DictHas(e, K_name)
              /\ DictHas(e, K_examples)
              /\ IsList(DictAt(e, K_examples))

\* the first check a dict that is not well formed fails
FirstFailingCheck(sch) ==
    IF ~DictHas(sch, K_context) THEN "MissingContext"
    ELSE IF ~DictHas(sch, K_entities) \/ ~IsList(DictAt(sch, K_entities))
      THEN "MissingEntities"
    ELSE IF Len(DictAt(sch, K_entities).v) = 0 THEN "EmptyEntityList"
    ELSE "InvalidEntity"

\* the reason a message of validate_schema states
ReasonOf(msg) ==
    CASE msg = "Schema must contain 'context' field" -> "MissingContext"
      [] msg = "Schema must contain 'entities' list" -> "MissingEntities"
      [] msg = "Schema must contain at least one entity" -> "EmptyEntityList"
      [] msg \in {"Each entity must be a dictionary",
                  "Each entity must have a 'name' field",
                  "Each entity must have an 'examples' list"} -> "InvalidEntity"
      [] OTHER -> "Other"

\* C3: validate_schema returns (True, "") exactly for a schema with a context
\* key, an entities list of at least one element, and a name and an examples
\* list in every element; otherwise it returns False with the reason of the
\* first failing check, in the order MissingContext, MissingEntities,
\* EmptyEntityList, InvalidEntity.  Examples that do not occur in the context
\* and repeated names are not reasons.
C3_ValidateIffWellFormed ==
    (fn = "validate_schema" /\ ret # Unset) =>
        /\ ret.ok <=> SchemaWellFormed(arg)
        /\ ret.ok => ret.msg = ""
        /\ (~ret.ok /\ IsDict(arg)) => ReasonOf(ret.msg) = FirstFailingCheck(arg)

\* a schema with a repeated name and an example that is not in the context
\* has been accepted
C3_Witness ==
    /\ fn = "validate_schema"
    /\ ret = Valid
    /\ LET es == DictAt(arg, K_entities).v
       IN  /\ Len(es) = 2
           /\ DictAt(es[1], K_name) = DictAt(es[2], K_name)
           /\ DictAt(es[1], K_examples) = PyList(<<PyStr(<<120>>)>>)
           /\ DictAt(arg, K_context) = PyStr(<<99>>)

---------------------------------------------------------------------------
(* save_schema(schema, filepath), then load_schema(filepath). *)

CallSaveSchema ==
    /\ fn = "save_schema"
    /\ file = Unset
    /\ file' = save_schema(arg)
    /\ UNCHANGED <<fn, arg, ret>>
    /\ UNCHANGED <<sessionVars, uiVars, docVars>>

CallLoadSchema ==
    /\ fn = "save_schema"
    /\ file # Unset
    /\ ret = Unset
    /\ ret' = load_schema(file)
    /\ UNCHANGED <<fn, arg, file>>
    /\ UNCHANGED <<sessionVars, uiVars, docVars>>

SpecSchemaFile ==
    UtilInit("save_schema", SchemaValues) /\ [][CallSaveSchema \/ CallLoadSchema]_vars

\* C4: for every schema validate_schema accepts, load_schema of the file
\* save_schema wrote returns the schema itself: the same context, the same
\* entities in the same order, with the same names, descriptions and examples.
C4_SchemaRoundTrip ==
    (fn = "save_schema" /\ ret # Unset /\ validate_schema(arg).ok) => ret = arg

\* a schema whose texts need every kind of escape and multi-byte character,
\* with two entities, one without a description, has made the round trip
C4_Witness ==
    /\ fn = "save_schema"
    /\ ret = arg
    /\ validate_schema(arg).ok
    /\ DictAt(arg, K_context) = PyStr(<<34,92>>)
    /\ Len(DictAt(arg, K_entities).v) = 2
    /\ ~DictHas(DictAt(arg, K_entities).v[1], K_description)
    /\ DictGet(DictAt(arg, K_entities).v[2], K_description, PyNone) = PyStr(<<233,10>>)

---------------------------------------------------------------------------
(* parse_csv_file(file_content) *)

CallParseCsv == Call("parse_csv_file", parse_csv_file(arg))

SpecCsv == UtilInit("parse_csv_file", CsvInputs) /\ [][CallParseCsv]_vars

\* the same text, letter case aside
SameIgnoringCase(a, b) ==
    /\ Len(a) = Len(b)
    /\ \A i \in 1..Len(a) :
          (IF a[i] >= 97 /\ a[i] <= 122 THEN a[i] - 32 ELSE a[i])
          = (IF b[i] >= 97 /\ b[i] <= 122 THEN b[i] - 32 ELSE b[i])

\* the header names a column that is name, letter case aside
HeaderNamesColumn(csv, name) ==
    \E i \in 1..Len(csv.header) : SameIgnoringCase(csv.header[i], name)

\* C5: parse_csv_file returns a table exactly when the column names of the
\* file, compared without regard to letter case, include title and abstract;
\* the table then has one row per data line and lower-case column names;
\* otherwise the call raises the ValueError "CSV must contain 'title' and
\* 'abstract' columns" and returns no table.
C5_CsvRequiredColumns ==
    (fn = "parse_csv_file" /\ ret # Unset) =>
        IF HeaderNamesColumn(arg, K_title) /\ HeaderNamesColumn(arg, K_abstract)
          THEN /\ ret.k = "DataFrame"
               /\ Len(ret.data) = Len(arg.lines)
               /\ Len(ret.columns) = Len(arg.header)
               /\ \A i \in 1..Len(ret.columns) :
                     /\ \A j \in 1..Len(ret.columns[i]) :
                           ~(ret.columns[i][j] >= 65 /\ ret.columns[i][j] <= 90)
                     /\ (\A j \in 1..(i - 1) : arg.header[j] # arg.header[i])
                           => SameIgnoringCase(ret.columns[i], arg.header[i])
          ELSE ret = Raised("ValueError: CSV must contain 'title' and 'abstract' columns")

\* a file whose header spells the two columns in other letter cases, with two
\* data lines, has been parsed into a table
C5_Witness ==
    /\ fn = "parse_csv_file"
    /\ ret # Unset
    /\ ret.k = "DataFrame"
    /\ arg.header = <<<<65,66,83,84,82,65,67,84>>, <<111,116,104,101,114>>,
                      <<84,105,116,108,101>>>>
    /\ Len(ret.data) = 2
    /\ ret.columns = <<K_abstract, <<111,116,104,101,114>>, K_title>>

---------------------------------------------------------------------------
(* extract_data: runs over the uploaded records, under Spec. *)

\* the number of records of the run
N == Len(uploaded_data.data)

\* the run has handled record r, and how
Handled(r) == r \in 1..Len(outcome)

Skipped(r) == Handled(r) /\ outcome[r].kind = "skipped"

Failed(r) == Handled(r) /\ outcome[r].kind = "failed"

Succeeded(r) == Handled(r) /\ outcome[r].kind = "ok"

\* a warning "Error processing record r" was emitted
Warned(r) == \E i \in 1..Len(warnings) : warnings[i] = r

\* the number a file name "{n}.html" carries, or 0 for any other name
FileNumber(filename) ==
    LET digits == Len(filename) - 5
        RECURSIVE Value(_)
        Value(i) == IF i = 0 THEN 0 ELSE 10 * Value(i - 1) + (filename[i] - 48)
    IN  IF /\ digits >= 1
           /\ SubSeq(filename, digits + 1, Len(filename)) = <<46,104,116,109,108>>
           /\ \A i \in 1..digits : filename[i] >= 48 /\ filename[i] <= 57
           /\ filename[1] # 48
          THEN Value(digits)
          ELSE 0

\* the positions in the visualization list of the documents numbered r
DocumentsOf(r) ==
    {i \in 1..Len(html_visualizations) : FileNumber(html_visualizations[i].filename) = r}

\* every entity column of row r of the table is the empty string
BlankRow(table, r) ==
    \A i \in 1..Len(EntityNames(schema)) :
        CellAt(table, r, EntityNames(schema)[i]) = PyStr(<<>>)

\* C6: after extract_data has run over N records the result table has
\* exactly N rows, in input order; every record for which a warning was
\* emitted (its processing raised an error that was caught) has all of its
\* entity columns blank and no visualization document; and when no record
\* was skipped for an empty text, the number of documents is N minus the
\* number of failed records.
C6_FailedRecordsBlank ==
    pc = "done" =>
        /\ Len(results.data) = N
        /\ \A r \in 1..N :
              /\ CellAt(results, r, K_title) = CellAt(uploaded_data, r, K_title)
              /\ CellAt(results, r, K_abstract) = CellAt(uploaded_data, r, K_abstract)
              /\ Warned(r) => (BlankRow(results, r) /\ DocumentsOf(r) = {})
        /\ (\A r \in 1..N : ~Skipped(r))
              => Len(html_visualizations) = N - Cardinality({r \in 1..N : Warned(r)})

\* C7: in a run the records are handled one at a time, in input order; the
\* extractor is called at most once per record, never for a record whose
\* text is empty, and once for every record whose text is not empty,
\* whatever happened to the records before it: the run ends only when every
\* record has been handled.
C7_OneCallPerNonEmptyRecord ==
    pc \in {"loop", "try", "done"} =>
        /\ Len(outcome) = idx
        /\ idx <= N
        /\ pc = "try" => (idx < N /\ text # <<>>)
        /\ pc = "done" => Len(outcome) = N
        /\ \A i \in 1..Len(calls) : \A j \in 1..Len(calls) :
              i < j => calls[i] < calls[j]
        /\ \A i \in 1..Len(calls) : Handled(calls[i]) /\ outcome[calls[i]].text # <<>>
        /\ \A r \in 1..Len(outcome) :
              /\ outcome[r].text =
                    EncodeIgnore(prepare_extraction_text(RowSeries(uploaded_data, r)))
              /\ outcome[r].text = <<>> <=> Skipped(r)
              /\ outcome[r].text # <<>> <=> (\E i \in 1..Len(calls) : calls[i] = r)

\* a run has ended in which the extractor raised for the first record and
\* was then called for the record after it
C7_Witness ==
    /\ pc = "done"
    /\ N >= 2
    /\ Failed(1)
    /\ calls = <<1, 2>>
    /\ Succeeded(2)

\* C8: a run of extract_data started with a schema that validate_schema
\* accepts, a description being optional for an entity, stores a result
\* table: no run fails as a whole without storing its results.
C8_RunStoresResults ==
    /\ validate_schema(schema).ok
    /\ pc # "crashed"

\* C9: after any number of runs the visualization list holds one document
\* for each record the last run processed successfully, and nothing else;
\* the documents are in input order, the document of record n is named
\* "{n}.html" and is generated from the text and the extractions of this
\* run; the numbers of 1..N without a document are those of the skipped and
\* the failed records.
C9_DocumentsOfLastRun ==
    pc = "done" =>
        /\ \A r \in 1..N :
              Cardinality(DocumentsOf(r)) = (IF Succeeded(r) THEN 1 ELSE 0)
        /\ \A r \in 1..N : DocumentsOf(r) = {} <=> (Skipped(r) \/ Failed(r))
        /\ \A i \in 1..Len(html_visualizations) :
              LET n == FileNumber(html_visualizations[i].filename)
              IN  /\ n \in 1..N
                  /\ Succeeded(n)
                  /\ html_visualizations[i].content =
                        generate_interactive_html(n, outcome[n].text,
                            outcome[n].result, EntityNames(schema))
                  /\ \A j \in 1..(i - 1) :
                        FileNumber(html_visualizations[j].filename) < n

\* a second run has ended with a document for record 2 only, the first
\* record having failed, where the run before it had left one for record 1
C9_Witness ==
    /\ pc = "done"
    /\ N >= 2
    /\ <<49,46,104,116,109,108>> \in earlier
    /\ Failed(1)
    /\ Succeeded(2)
    /\ Len(html_visualizations) = 1
    /\ html_visualizations[1].filename = <<50,46,104,116,109,108>>

\* fractions: a = b, a <= b
FracEq(a, b) == a.num * b.den = b.num * a.den

FracLeq(a, b) == a.num * b.den <= b.num * a.den

NonDecreasing(values) ==
    \A i \in 1..Len(values) : \A j \in 1..Len(values) :
        i <= j => FracLeq(values[i], values[j])

\* C10 as stated: during a run over N >= 1 records the reported progress
\* values are non-decreasing, the value k/N is reported after record k has
\* been processed (succeeded, failed or skipped), and the last value is 1.0.
C10_ProgressAfterRecord ==
    (pc \in {"loop", "try", "done"} /\ N >= 1) =>
        /\ NonDecreasing(reported)
        /\ \A k \in 1..N :
              (\E i \in 1..Len(reported) : FracEq(reported[i], [num |-> k, den |-> N]))
                  => Handled(k)
        /\ pc = "done" => FracEq(reported[Len(reported)], [num |-> 1, den |-> 1])

\* C10, amended: during a run over N >= 1 records the reported values are
\* 0, then k/N when the handling of record k begins (records 1..k-1 having
\* been processed, record k not yet), then 1.0 after the last record; they
\* are non-decreasing and the last one is 1.0.
C10_ProgressAtRecordStart ==
    (pc \in {"loop", "try", "done"} /\ N >= 1) =>
        LET begun == IF pc = "try" THEN Len(outcome) + 1 ELSE Len(outcome)
        IN  /\ NonDecreasing(reported)
            /\ Len(reported) = 1 + begun + (IF pc = "done" THEN 1 ELSE 0)
            /\ FracEq(reported[1], [num |-> 0, den |-> 1])
            /\ \A k \in 1..begun : FracEq(reported[k + 1], [num |-> k, den |-> N])
            /\ pc = "done" =>
                  /\ begun = N
                  /\ FracEq(reported[Len(reported)], [num |-> 1, den |-> 1])

\* the handling of record 1 of 2 has begun and is not over: 1/2 has been
\* reported and no record has been processed
C10_Witness ==
    /\ pc = "try"
    /\ N = 2
    /\ outcome = <<>>
    /\ reported = <<[num |-> 0, den |-> 1], [num |-> 1, den |-> 2]>>

---------------------------------------------------------------------------
(* extract_data with entity names that are also column names of the table. *)

\* schemas whose entity is named as a column of the uploaded table is, or not
ColumnSchemas ==
    {PyDict(<< <<K_context, PyStr(<<99>>)>>,
               <<K_prompt_description, PyStr(<<>>)>>,
               <<K_entities, PyList(<< Entity(name,
                     << <<K_description, PyStr(<<>>)>> >>, <<PyStr(<<99>>)>>) >>)>> >>) :
        name \in {K_title, K_abstract, N_Disease}}

ColumnsInit ==
    /\ fn = "none"
    /\ arg = Unset
    /\ ret = Unset
    /\ file = Unset
    /\ schema \in ColumnSchemas
    /\ uploaded_data \in Datasets
    /\ results = PyNone
    /\ html_visualizations = <<>>
    /\ NotRunning
    /\ NoPage
    /\ NoDocument

SpecColumns == ColumnsInit /\ [][Next]_vars

\* C12: extract_data never changes the original fields of a record: for any
\* entity names the result table is the uploaded table with one column
\* appended per entity name, and every original column, title and abstract
\* included, keeps its value in every row.
C12_OriginalColumnsKept ==
    pc = "done" =>
        /\ results.columns = uploaded_data.columns \o EntityNames(schema)
        /\ Len(results.data) = N
        /\ \A r \in 1..N : \A c \in 1..Len(uploaded_data.columns) :
              results.data[r][c] = uploaded_data.data[r][c]

\* C13 as stated: when records failed during a run, the run ends by
\* reporting a summary that gives the number of the failed records and their
\* positions.
C13_FinalErrorSummary ==
    (pc = "done" /\ \E r \in 1..N : Failed(r)) =>
        /\ "failed" \in DOMAIN status_text
        /\ "positions" \in DOMAIN status_text
        /\ status_text.failed = Cardinality({r \in 1..N : Failed(r)})
        /\ status_text.positions = {r \in 1..N : Failed(r)}

\* C13, amended: a record that fails is reported when it fails, by a warning
\* of its own that names its position: at any point of a run the warnings
\* name the records that have failed so far, once each and in input order.
\* The run ends by reporting completion with the number of records, failed
\* ones included, and no summary of the failures.
C13_WarningPerFailedRecord ==
    pc \in {"loop", "try", "done"} =>
        /\ Len(warnings) = Cardinality({r \in 1..Len(outcome) : Failed(r)})
        /\ \A i \in 1..Len(warnings) :
              /\ Failed(warnings[i])
              /\ \A j \in 1..(i - 1) : warnings[j] < warnings[i]
        /\ pc = "done" =>
              status_text = [k |-> "Completed! Processed", records |-> N]

\* a run over two records has ended, the second record having failed
C13_Witness ==
    /\ pc = "done"
    /\ N = 2
    /\ Succeeded(1)
    /\ Failed(2)
    /\ warnings = <<2>>
    /\ status_text = [k |-> "Completed! Processed", records |-> 2]

---------------------------------------------------------------------------
(* The pages of the app: a script run of main() on one interaction of the  *)
(* user.  Step 1 (render_step1_schema_definition) is rendered before step 4 *)
(* (render_step4_execution) in every script run; st.rerun() ends the run    *)
(* and starts another one in which no button is pressed.                    *)

\* "Extract "
T_Extract == <<69,120,116,114,97,99,116,32>>

\* " in order of appearance."
T_InOrder == <<32,105,110,32,111,114,100,101,114,32,111,102,32,97,112,112,101,97,114,97,110,99,101,46>>

\* "Use exact text for extractions. Do not paraphrase or overlap entities."
T_UseExact ==
    <<85,115,101,32,101,120,97,99,116,32,116,101,120,116,32,102,111,114,32,101,120,116,114,97,99,116,105,111,110,115,46,32,68,111,32,110,111,116,32,112,97,114,97,112,104,114,97,115,101,32,111,114,32,111,118,101,114,108,97,112,32,101,110,116,105,116,105,101,115,46>>

\* "Provide meaningful attributes for each entity to add context."
T_Provide ==
    <<80,114,111,118,105,100,101,32,109,101,97,110,105,110,103,102,117,108,32,97,116,116,114,105,98,117,116,101,115,32,102,111,114,32,101,97,99,104,32,101,110,116,105,116,121,32,116,111,32,97,100,100,32,99,111,110,116,101,120,116,46>>

Spaces(n) == [i \in 1..n |-> 32]

\* the number of spaces a line starts with
LeadingSpaces(line) ==
    IF \A i \in 1..Len(line) : line[i] = 32 THEN Len(line)
    ELSE (CHOOSE i \in 1..Len(line) :
             line[i] # 32 /\ \A j \in 1..(i - 1) : line[j] = 32) - 1

\* textwrap.dedent on lines indented by spaces, none of them blank: the
\* margin common to all lines is removed
Dedent(lines) ==
    LET margin == CHOOSE m \in {LeadingSpaces(lines[i]) : i \in 1..Len(lines)} :
                      \A i \in 1..Len(lines) : m <= LeadingSpaces(lines[i])
    IN  [i \in 1..Len(lines) |-> SubSeq(lines[i], margin + 1, Len(lines[i]))]

\* the lines of the f-string, as indented in the source, for names without
\* a line break
InstructionLines(entity_list, indent) ==
    << Spaces(indent) \o T_Extract \o entity_list \o T_InOrder,
       Spaces(indent) \o T_UseExact,
       Spaces(indent) \o T_Provide >>

\* textwrap.dedent(f"""\ Extract {entity_list} in order of appearance. ...""")
\* for entity_list = ', '.join(entity_names)
prompt_description(entity_names, indent) ==
    PyJoin(<<10>>, Dedent(InstructionLines(PyJoin(<<44,32>>, entity_names), indent)))

\* schema[key] = value
SchemaSet(sch, key, value) == PyDict(DictSet(sch.items, key, value))

\* schema['prompt_description'] = prompt_description, if there are entities
WithPrompt(sch, indent) ==
    IF DictAt(sch, K_entities).v # <<>>
      THEN SchemaSet(sch, K_prompt_description,
                     PyStr(prompt_description(EntityNames(sch), indent)))
      ELSE sch

PyWhitespace == {9, 10, 11, 12, 13, 28, 29, 30, 31, 32}

\* str.strip()
Strip(str) ==
    LET kept == {i \in 1..Len(str) : str[i] \notin PyWhitespace}
    IN  IF kept = {} THEN <<>>
        ELSE SubSeq(str, CHOOSE i \in kept : \A j \in kept : i <= j,
                         CHOOSE i \in kept : \A j \in kept : i >= j)

\* str.split('\n')
RECURSIVE SplitLines(_)
SplitLines(str) ==
    LET breaks == {i \in 1..Len(str) : str[i] = 10}
    IN  IF breaks = {} THEN <<str>>
        ELSE LET i == CHOOSE b \in breaks : \A c \in breaks : b <= c
             IN  <<SubSeq(str, 1, i - 1)>> \o SplitLines(SubSeq(str, i + 1, Len(str)))

\* [ex.strip() for ex in examples_text.split('\n') if ex.strip()], as values
ExamplesOfText(examples_text) ==
    LET lines == SplitLines(examples_text)
        stripped == [i \in 1..Len(lines) |-> PyStr(Strip(lines[i]))]
        NotEmpty(x) == x.s # <<>>
    IN  SelectSeq(stripped, NotEmpty)

\* the entity as the form writes it back: the name of its text input, the
\* description and the examples of its text areas
UpdatedEntity(entity, entity_name) ==
    LET examples == DictAt(entity, K_examples).v
        examples_text == PyJoin(<<10>>, [i \in 1..Len(examples) |-> examples[i].s])
    IN  PyDict(<< <<K_name, PyStr(entity_name)>>,
                  <<K_description, DictGet(entity, K_description, PyStr(<<>>))>>,
                  <<K_examples, PyList(ExamplesOfText(examples_text))>> >>)

\* the entities list after the loop over the first n entities
UpdatedEntities(entities, names, n) ==
    [i \in 1..Len(entities) |->
        IF i <= n THEN UpdatedEntity(entities[i], names[i]) ELSE entities[i]]

\* the entity the add form appends
NewEntity(new_entity_name) ==
    PyDict(<< <<K_name, PyStr(new_entity_name)>>,
              <<K_description, PyStr(<<>>)>>,
              <<K_examples, PyList(<<>>)>> >>)

\* step 1 from the context text area to the end of the entity loop, with the
\* values the widgets return
RenderSchemaForm(sch, context, names) ==
    LET withContext == SchemaSet(sch, K_context, PyStr(context))
        withPrompt == WithPrompt(withContext, 12)
        entities == DictAt(withPrompt, K_entities).v
    IN  SchemaSet(withPrompt, K_entities,
                  PyList(UpdatedEntities(entities, names, Len(entities))))

\* a script run in which the user has touched nothing: every widget returns
\* the value the session gives it
Rerun(sch) == RenderSchemaForm(sch, DictAt(sch, K_context).s, EntityNames(sch))

\* the page of a script run: the error of the schema upload, the schema
\* serialised for download (or the warning shown instead), and whether
\* extract_data was called
Page(error, saved, started) == [error |-> error, saved |-> saved, started |-> started]

\* a new file is in the uploader: file_id != st.session_state.loaded_schema_file
NewUpload(loaded, uploaded_schema) ==
    uploaded_schema # PyNone /\ uploaded_schema.file_id # loaded

\* what st.error shows for the file in the uploader, "" when nothing
UploadError(loaded, uploaded_schema) ==
    IF ~NewUpload(loaded, uploaded_schema) THEN ""
    ELSE IF uploaded_schema.loaded_schema.k = "raise" THEN "Error loading schema"
    ELSE IF ~validate_schema(uploaded_schema.loaded_schema).ok
      THEN "Invalid schema: " \o validate_schema(uploaded_schema.loaded_schema).msg
    ELSE ""

\* UploadAccepted without the call of validate_schema: whatever parses is
\* taken as the schema
UploadAcceptedUnvalidated(loaded, uploaded_schema) ==
    /\ NewUpload(loaded, uploaded_schema)
    /\ uploaded_schema.loaded_schema.k # "raise"

\* the new file is accepted: st.session_state.schema = loaded_schema
UploadAccepted(loaded, uploaded_schema) ==
    /\ NewUpload(loaded, uploaded_schema)
    /\ UploadError(loaded, uploaded_schema) = ""

\* the loaded schema, with a prompt_description if the file has none
LoadedSchema(loaded_schema) ==
    IF DictHas(loaded_schema, K_prompt_description) THEN loaded_schema
    ELSE SchemaSet(loaded_schema, K_prompt_description, PyStr(<<>>))

\* "Start Extraction" is offered for this schema (render_step4_execution; an
\* API key is taken as entered)
ReadyToRun(sch) ==
    /\ DictAt(sch, K_entities).v # <<>>
    /\ uploaded_data # PyNone

\* one script run and the reruns it asks for.  button is "none", "save",
\* "start", "delete" (of entity number at) or "add" (of new_entity_name);
\* context and names are the values of the text widgets.
\* The result: the session's schema and loaded_schema_file, the page, and
\* the schema extract_data is called on if it is.
ScriptRun(sch, loaded, uploaded_schema, button, at, new_entity_name, context, names) ==
    LET error == UploadError(loaded, uploaded_schema)
        Result(s, l, saved, started) ==
            [schema |-> s, loaded_schema_file |-> l,
             page |-> Page(error, saved, started)]
        entities == DictAt(sch, K_entities).v
        saving == button = "save" /\ entities # <<>>
        afterSave == IF saving THEN WithPrompt(sch, 20) ELSE sch
        saved == IF saving THEN afterSave
                 ELSE IF button = "save"
                   THEN [k |-> "warning",
                         msg |-> "Please define at least one entity before saving"]
                 ELSE PyNone
        withContext == SchemaSet(afterSave, K_context, PyStr(context))
        withPrompt == WithPrompt(withContext, 12)
        deleted ==
            LET upTo == UpdatedEntities(entities, names, at - 1)
            IN  SchemaSet(withPrompt, K_entities,
                    PyList([i \in 1..(Len(upTo) - 1) |->
                               IF i < at THEN upTo[i] ELSE upTo[i + 1]]))
        rendered == RenderSchemaForm(afterSave, context, names)
        added == SchemaSet(rendered, K_entities,
                     PyList(Append(DictAt(rendered, K_entities).v,
                                   NewEntity(new_entity_name))))
    IN  IF UploadAccepted(loaded, uploaded_schema)
          THEN Result(Rerun(LoadedSchema(uploaded_schema.loaded_schema)),
                      uploaded_schema.file_id, PyNone, FALSE)
        ELSE IF button = "delete"
          THEN Result(Rerun(deleted), loaded, PyNone, FALSE)
        ELSE IF button = "add" /\ new_entity_name # <<>>
          THEN Result(Rerun(added), loaded, PyNone, FALSE)
        ELSE Result(rendered, loaded, saved,
                    button = "start" /\ ReadyToRun(rendered))

\* what json.loads gives for the files a user uploads: a schema without
\* prompt_description, its entity without description and with blank
\* examples; a schema that brings a prompt_description of its own; a schema
\* without entities; a file that is no JSON
FileOfDisease ==
    PyDict(<< <<K_context, PyStr(<<99>>)>>,
              <<K_entities, PyList(<< Entity(N_Disease, <<>>,
                    <<PyStr(<<32>>), PyStr(<<>>)>>) >>)>> >>)

FileOfDrug ==
    PyDict(<< <<K_context, PyStr(<<99>>)>>,
              <<K_prompt_description, PyStr(<<120>>)>>,
              <<K_entities, PyList(<< Entity(N_Drug,
                    << <<K_description, PyStr(<<>>)>> >>, <<>>) >>)>> >>)

FileWithoutEntities ==
    PyDict(<< <<K_context, PyStr(<<99>>)>>, <<K_entities, PyList(<<>>)>> >>)

\* an uploaded file: file_id is f"{name}_{size}", which two files of
\* different content can share
UploadedFiles ==
    { [file_id |-> PyStr(<<97,95,49>>), loaded_schema |-> FileOfDisease],
      [file_id |-> PyStr(<<97,95,49>>), loaded_schema |-> FileWithoutEntities],
      [file_id |-> PyStr(<<98,95,50>>), loaded_schema |-> FileOfDrug],
      [file_id |-> PyStr(<<98,95,50>>), loaded_schema |-> Raised("JSONDecodeError")] }

\* the values typed into the context and the name widgets
Contexts == {<<99>>, <<100>>}

NameChoices == {N_Disease, N_Drug}

\* the page reacts to the user.  The session is followed up to the end of
\* its first run of extract_data: what a run leaves in the session (results,
\* documents) is read by no code of step 1.
PageIdle == pc = "idle"

\* the session after a script run, and the run of extract_data it starts
Shown(run, uploaded_schema) ==
    /\ schema' = run.schema
    /\ loaded_schema_file' = run.loaded_schema_file
    /\ page' = run.page
    /\ schema_upload' = uploaded_schema
    /\ IF run.page.started
         THEN RunStart(run.schema)
         ELSE UNCHANGED <<uploaded_data, results, html_visualizations, pc, df, idx,
                          text, reported, warnings, calls, outcome, earlier,
                          status_text>>
    /\ UNCHANGED <<utilVars, docVars>>

\* the user puts a file into the schema uploader, or takes it out
ChooseSchemaFile(uploaded_schema) ==
    /\ PageIdle
    /\ uploaded_schema # schema_upload
    /\ Shown(ScriptRun(schema, loaded_schema_file, uploaded_schema, "none", 0, <<>>,
                       DictAt(schema, K_context).s, EntityNames(schema)),
             uploaded_schema)

\* the user changes text widgets of step 1 and, at once or not at all,
\* presses "Download Schema as JSON" or "Start Extraction"
EditSchema(button, context, names) ==
    /\ PageIdle
    /\ button \in {"none", "save", "start"}
    /\ Len(names) = Len(EntityNames(schema))
    /\ Shown(ScriptRun(schema, loaded_schema_file, schema_upload, button, 0, <<>>,
                       context, names),
             schema_upload)

\* the user presses "Delete" in the expander of entity number at
DeleteEntity(at) ==
    /\ PageIdle
    /\ at \in 1..Len(EntityNames(schema))
    /\ Shown(ScriptRun(schema, loaded_schema_file, schema_upload, "delete", at, <<>>,
                       DictAt(schema, K_context).s, EntityNames(schema)),
             schema_upload)

\* the user submits the "Add New Entity" form
AddEntity(new_entity_name) ==
    /\ PageIdle
    /\ Len(EntityNames(schema)) < MaxEntities
    /\ Shown(ScriptRun(schema, loaded_schema_file, schema_upload, "add", 0,
                       new_entity_name,
                       DictAt(schema, K_context).s, EntityNames(schema)),
             schema_upload)

\* the session of a user who has uploaded a file of one record and entered
\* an API key, and has not touched step 1
AppInit ==
    /\ fn = "none"
    /\ arg = Unset
    /\ ret = Unset
    /\ file = Unset
    /\ schema = PyDict(<< <<K_context, PyStr(<<>>)>>,
                          <<K_prompt_description, PyStr(<<>>)>>,
                          <<K_entities, PyList(<<>>)>> >>)
    /\ uploaded_data = DataFrame(<<K_title, K_abstract>>,
                                 << <<PyStr(<<84>>), PyStr(<<65>>)>> >>)
    /\ results = PyNone
    /\ html_visualizations = <<>>
    /\ NotRunning
    /\ NoPage
    /\ NoDocument

AppNext ==
    \/ \E uploaded_schema \in UploadedFiles \cup {PyNone} :
          ChooseSchemaFile(uploaded_schema)
    \/ \E button \in {"none", "save", "start"}, context \in Contexts,
          names \in SeqsUpTo(NameChoices, MaxEntities) :
          EditSchema(button, context, names)
    \/ \E at \in 1..MaxEntities : DeleteEntity(at)
    \/ \E new_entity_name \in NameChoices \cup {<<>>} : AddEntity(new_entity_name)
    \/ BeginRecord
    \/ ExtractRecord
    \/ FinishExtraction

SpecApp == AppInit /\ [][AppNext]_vars

\* the instruction string of a list of entity names: the names joined by
\* ", " in the first of its three lines
InstructionsFor(names) ==
    LET RECURSIVE CommaJoined(_)
        CommaJoined(n) ==
            IF n = 0 THEN <<>>
            ELSE IF n = 1 THEN names[1]
            ELSE CommaJoined(n - 1) \o <<44,32>> \o names[n]
    IN  T_Extract \o CommaJoined(Len(names)) \o T_InOrder \o <<10>>
        \o T_UseExact \o <<10>> \o T_Provide

\* the prompt_description of a schema is the instruction string of its names
PromptDerived(sch) ==
    DictAt(sch, K_prompt_description) = PyStr(InstructionsFor(EntityNames(sch)))

\* a run of extract_data is under way: its calls of the extractor pass
\* schema['prompt_description']
Running == pc \in {"loop", "try"}

\* the page offers a serialised schema for download
SchemaSaved == page # Unset /\ page.saved.k = "dict"

\* C11: after any sequence of schema loads and entity additions, name edits
\* and deletions, the prompt_description a run passes to the extractor, and
\* the one of a schema serialised for saving, is the instruction string
\* derived from the current entity names: never a stale one, never the one a
\* file supplied.
C11_PromptDerivedFromNames ==
    /\ Running => PromptDerived(schema)
    /\ SchemaSaved => PromptDerived(page.saved)

\* a script run on a file newly put into the uploader, which
\* validate_schema is called on and rejects
RejectedUpload ==
    /\ schema_upload' # schema_upload
    /\ schema_upload' # PyNone
    /\ schema_upload'.file_id # loaded_schema_file
    /\ schema_upload'.loaded_schema.k # "raise"
    /\ ~validate_schema(schema_upload'.loaded_schema).ok

\* a script run that calls extract_data
RunStarts == pc = "idle" /\ pc' # "idle"

\* C20: after any sequence of schema uploads, context edits and additions,
\* edits and deletions of entities, a run of extract_data starts only on a
\* session schema that validate_schema accepts, and never while the entity
\* list is empty; an uploaded schema that validate_schema rejects is
\* reported, and the context and the entities of the session schema (and
\* the file the session counts as loaded) stay as they were.
C20_RunStartsOnValidSchema ==
    [][ /\ RunStarts =>
              /\ validate_schema(schema').ok
              /\ DictAt(schema, K_entities).v # <<>>
              /\ DictAt(schema', K_entities).v # <<>>
        /\ RejectedUpload =>
              /\ page'.error # ""
              /\ ~RunStarts
              /\ DictAt(schema', K_context) = DictAt(schema, K_context)
              /\ DictAt(schema', K_entities) = DictAt(schema, K_entities)
              /\ loaded_schema_file' = loaded_schema_file ]_vars

\* a run has started on a schema of two entities, one loaded from a file and
\* one added, while the page reports the rejected file that is still in the
\* uploader
C20_Witness ==
    /\ pc = "loop"
    /\ page.started
    /\ page.error # ""
    /\ schema_upload # PyNone
    /\ schema_upload.loaded_schema = FileWithoutEntities
    /\ loaded_schema_file = PyStr(<<98,95,50>>)
    /\ Len(DictAt(schema, K_entities).v) = 2
    /\ validate_schema(schema).ok

---------------------------------------------------------------------------
(* The script of a visualization document, and the browser as far as the   *)
(* script uses it: String.prototype.substring, Array.prototype.sort, the   *)
(* innerHTML and textContent of an element.  The content of an element is  *)
(* the sequence of its tokens: [t |-> "text", s], [t |-> "start", name,    *)
(* attrs] and [t |-> "end", name].                                         *)

\* str.substring(start, end): each argument is clamped to 0..str.length,
\* and the two are swapped if the first is the larger one
substring(str, start, end) ==
    LET Clamp(n) == IF n < 0 THEN 0 ELSE IF n > Len(str) THEN Len(str) ELSE n
        a == Clamp(start)
        b == Clamp(end)
    IN  IF a <= b THEN SubSeq(str, a + 1, b) ELSE SubSeq(str, b + 1, a)

\* escapeHtml: the innerHTML of an element whose textContent is str
escapeHtml(str) ==
    LET Escaped(c) == CASE c = 38 -> <<38,97,109,112,59>>
                        [] c = 60 -> <<38,108,116,59>>
                        [] c = 62 -> <<38,103,116,59>>
                        [] OTHER -> <<c>>
    IN  Concat([i \in 1..Len(str) |-> Escaped(str[i])], 1, Len(str))

\* darkenColor: each of the three channels of '#rrggbb' lowered by 40, not
\* below 0, and written with two lower-case hex digits
darkenColor(color) ==
    LET Channel(k) == 16 * HexValue(color[2 * k]) + HexValue(color[2 * k + 1])
        Dark(k) == IF Channel(k) - 40 < 0 THEN 0 ELSE Channel(k) - 40
        Hex2(n) == <<HexDigits[(n \div 16) + 1], HexDigits[(n % 16) + 1]>>
    IN  <<35>> \o Hex2(Dark(1)) \o Hex2(Dark(2)) \o Hex2(Dark(3))

\* the text of an element's content with the character references of
\* escapeHtml (and of quotes) replaced by their characters
RECURSIVE DecodeReferences(_)
DecodeReferences(str) ==
    LET references == { <<<<38,97,109,112,59>>, 38>>, <<<<38,108,116,59>>, 60>>,
                        <<<<38,103,116,59>>, 62>>, <<<<38,113,117,111,116,59>>, 34>>,
                        <<<<38,35,51,57,59>>, 39>> }
        At(i) == {r \in references :
                    /\ i + Len(r[1]) - 1 <= Len(str)
                    /\ SubSeq(str, i, i + Len(r[1]) - 1) = r[1]}
        at == {i \in 1..Len(str) : At(i) # {}}
    IN  IF at = {} THEN str
        ELSE LET i == CHOOSE x \in at : \A y \in at : x <= y
                 r == CHOOSE x \in At(i) : TRUE
             IN  SubSeq(str, 1, i - 1) \o <<r[2]>>
                 \o DecodeReferences(SubSeq(str, i + Len(r[1]), Len(str)))

\* element.textContent = str: one text node, none for the empty string
textContent(str) == IF str = <<>> THEN <<>> ELSE <<[t |-> "text", s |-> str]>>

\* element.innerHTML = str, by the HTML parser as far as these documents
\* need it.  A tag starts at a '<' that a letter follows (or '/' and a
\* letter) and ends at the next '>' outside double quotes; its name ends at
\* white space, '/' or '>' and is lower-cased; a tag the input ends in is
\* dropped.  Everything else is text.
RECURSIVE innerHTML(_)
innerHTML(str) ==
    LET IsLetter(c) == (c >= 65 /\ c <= 90) \/ (c >= 97 /\ c <= 122)
        TagAt(i) ==
            /\ str[i] = 60
            /\ \/ i + 1 <= Len(str) /\ IsLetter(str[i + 1])
               \/ i + 2 <= Len(str) /\ str[i + 1] = 47 /\ IsLetter(str[i + 2])
        First(S) == CHOOSE x \in S : \A y \in S : x <= y
        Text(a, b) == textContent(DecodeReferences(SubSeq(str, a, b)))
        tags == {i \in 1..Len(str) : TagAt(i)}
    IN  IF tags = {} THEN Text(1, Len(str))
        ELSE LET i == First(tags)
                 Quotes(j) == Cardinality({q \in i..j : str[q] = 34})
                 ends == {j \in i..Len(str) : str[j] = 62 /\ Quotes(j) % 2 = 0}
             IN  IF ends = {} THEN Text(1, i - 1)
                 ELSE LET j == First(ends)
                          closing == str[i + 1] = 47
                          first == IF closing THEN i + 2 ELSE i + 1
                          last == First({k \in first..j :
                                           str[k] \in {9, 10, 12, 13, 32, 47, 62}}) - 1
                          name == [k \in 1..(last - first + 1) |->
                                     IF str[first + k - 1] >= 65 /\ str[first + k - 1] <= 90
                                       THEN str[first + k - 1] + 32
                                       ELSE str[first + k - 1]]
                          tag == IF closing
                                   THEN [t |-> "end", name |-> name]
                                   ELSE [t |-> "start", name |-> name,
                                         attrs |-> SubSeq(str, last + 1, j - 1)]
                      IN  Text(1, i - 1) \o <<tag>>
                          \o innerHTML(SubSeq(str, j + 1, Len(str)))

\* highlightEntities(entityType): the text container afterwards.  The
\* extractions are sorted descending by start, those of equal start in
\* their order (the sort is stable); each one, in turn, replaces the
\* characters of highlightedText between its offsets by
\* `<span class="highlight" style="background-color: ${color}; border: 2px
\* solid ${darkenColor(color)};">${escapeHtml(match)}</span>`.
highlightEntities(html, entityType) ==
    LET extractions == DictAt(PyDict(html.entities), entityType)
        color == DictAt(PyDict(html.colors), entityType)
        RECURSIVE Sorted(_)
        Sorted(es) ==
            IF es = <<>> THEN <<>>
            ELSE LET first == CHOOSE i \in 1..Len(es) :
                                 /\ \A j \in 1..Len(es) : es[j].start <= es[i].start
                                 /\ \A j \in 1..(i - 1) : es[j].start < es[i].start
                     rest == [j \in 1..(Len(es) - 1) |->
                                 IF j < first THEN es[j] ELSE es[j + 1]]
                 IN  <<es[first]>> \o Sorted(rest)
        sortedExtractions == Sorted(extractions)
        highlighted(match) ==
            <<60,115,112,97,110,32,99,108,97,115,115,61,34,104,105,103,104,108,105,103,104,116,34,32,115,116,121,108,101,61,34,98,97,99,107,103,114,111,117,110,100,45,99,111,108,111,114,58,32>>
            \o color
            \o <<59,32,98,111,114,100,101,114,58,32,50,112,120,32,115,111,108,105,100,32>>
            \o darkenColor(color) \o <<59,34,62>>
            \o escapeHtml(match) \o <<60,47,115,112,97,110,62>>
        RECURSIVE highlightedText(_)
        highlightedText(n) ==
            IF n = 0 THEN html.text
            ELSE LET previous == highlightedText(n - 1)
                     extraction == sortedExtractions[n]
                     before == substring(previous, 0, extraction.start)
                     match == substring(previous, extraction.start, extraction.end)
                     after == substring(previous, extraction.end, Len(previous))
                 IN  before \o highlighted(match) \o after
    IN  innerHTML(highlightedText(Len(sortedExtractions)))

---------------------------------------------------------------------------
(* A visualization document opened in a browser: the page as it loads and  *)
(* the clicks on its entity buttons.                                       *)

\* what the template puts into the text container: the text, between the
\* line break and the indentation of the f-string
EmbeddedText(html) ==
    <<10,32,32,32,32,32,32,32,32>> \o html.text \o <<10,32,32,32,32>>

\* createButtons(), the last statement of the page's script: the entity
\* types that get a button, in the order of Object.entries(entities).  The
\* script is the content of a script element, and json.dumps leaves '<',
\* '/' and '>' as they are: a '</script' followed by a space, '/' or '>' in
\* the text, in an entity name or in an extraction's text ends the element
\* inside a string literal, and then no statement of the script runs.
createButtons(html) ==
    LET Lower(c) == IF c >= 65 /\ c <= 90 THEN c + 32 ELSE c
        EndsScript(str) ==
            \E i \in 1..(Len(str) - 8) :
                /\ [j \in 1..8 |-> Lower(str[i + j - 1])]
                      = <<60,47,115,99,114,105,112,116>>
                /\ str[i + 8] \in {32, 47, 62}
        broken ==
            \/ EndsScript(html.text)
            \/ \E i \in 1..Len(html.entities) :
                  \/ EndsScript(html.entities[i][1])
                  \/ \E j \in 1..Len(html.entities[i][2]) :
                        EndsScript(html.entities[i][2][j].text)
        HasExtractions(item) == Len(item[2]) > 0
        items == SelectSeq(html.entities, HasExtractions)
    IN  IF broken THEN <<>> ELSE [i \in 1..Len(items) |-> items[i][1]]

\* the buttons with the class 'active' after an activation that leaves the
\* other buttons as they are
ActivatedKeepingOthers(buttons, entityType) == buttons \cup {entityType}

\* the buttons with the class 'active' after the activation of a button
Activated(buttons, entityType) == {entityType}

\* toggleHighlight(entityType, button), by a click on the button of
\* entityType; deactivating calls showOriginalText, which sets the
\* container's textContent to originalText
toggleHighlight(entityType) ==
    /\ opened # PyNone
    /\ Len(clicks) < MaxClicks
    /\ \E i \in 1..Len(createButtons(opened.html)) :
          createButtons(opened.html)[i] = entityType
    /\ IF activeEntity = PyStr(entityType)
         THEN /\ activeEntity' = PyNone
              /\ activeButtons' = activeButtons \ {entityType}
              /\ container' = textContent(opened.html.text)
         ELSE /\ activeEntity' = PyStr(entityType)
              /\ activeButtons' = Activated(activeButtons, entityType)
              /\ container' = highlightEntities(opened.html, entityType)
    /\ clicks' = Append(clicks, entityType)
    /\ UNCHANGED <<opened, utilVars, sessionVars, uiVars>>

\* The documents a completed run leaves for download.  The texts: 'abcd',
\* and 'a<b>c' and '</script>', with markup-significant characters.  The offsets the
\* extractor returns for the first entity type: none; one span; two spans
\* apart, in ascending order; adjacent spans; overlapping spans; the same
\* span twice; a span that ends after the text; an inverted span; a span
\* that starts after the text.  For the second entity type, and for a
\* class that is no entity name: none, or one span.  An extraction's text is
\* the slice of the text at its offsets.
Documents ==
    LET texts == { <<97,98,99,100>>, <<97,60,98,62,99>>,
                   <<60,47,115,99,114,105,112,116,62>> }
        offsets == { <<>>,
                     << <<1, 3>> >>,
                     << <<0, 1>>, <<2, 4>> >>,
                     << <<0, 2>>, <<2, 4>> >>,
                     << <<0, 2>>, <<1, 3>> >>,
                     << <<1, 2>>, <<1, 2>> >>,
                     << <<2, 9>> >>,
                     << <<3, 1>> >>,
                     << <<7, 9>> >> }
        Min(a, b) == IF a < b THEN a ELSE b
        ExtractionsAt(class, txt, at) ==
            [i \in 1..Len(at) |->
                Extraction(class,
                           SubSeq(txt, Min(at[i][1], Len(txt)) + 1, Min(at[i][2], Len(txt))),
                           CharInterval(at[i][1], at[i][2]))]
        Result(txt, a, o, b) ==
            [k |-> "result",
             extractions |-> ExtractionsAt(N_Disease, txt, a)
                             \o ExtractionsAt(N_Other, txt, o)
                             \o ExtractionsAt(N_Drug, txt, b)]
    IN  { [k |-> "document",
           text |-> txt,
           result |-> Result(txt, a, o, b),
           entity_names |-> <<N_Disease, N_Drug>>,
           html |-> generate_interactive_html(1, txt, Result(txt, a, o, b),
                                              <<N_Disease, N_Drug>>)] :
            txt \in texts, a \in offsets,
            o \in { <<>>, << <<0, 1>> >> }, b \in { <<>>, << <<0, 1>> >> } }

DocInit ==
    /\ fn = "none"
    /\ arg = Unset
    /\ ret = Unset
    /\ file = Unset
    /\ initialize_session_state
    /\ NotRunning
    /\ NoPage
    /\ opened \in Documents
    /\ activeEntity = PyNone
    /\ container = innerHTML(EmbeddedText(opened.html))
    /\ activeButtons = {}
    /\ clicks = <<>>

DocNext == \E entityType \in {N_Disease, N_Drug, N_Other} : toggleHighlight(entityType)

SpecDoc == DocInit /\ [][DocNext]_vars

---------------------------------------------------------------------------
(* What a reader of an opened document sees. *)

\* the text the container displays: the characters of its text nodes
DisplayedText(c) ==
    Concat([i \in 1..Len(c) |-> IF c[i].t = "text" THEN c[i].s ELSE <<>>], 1, Len(c))

IsStartOf(tok, name) == tok.t = "start" /\ tok.name = name

IsEndOf(tok, name) == tok.t = "end" /\ tok.name = name

SpanName == <<115,112,97,110>>

\* the positions of the span elements of the container
SpanStarts(c) == {i \in 1..Len(c) : IsStartOf(c[i], SpanName)}

\* the text inside the span element that starts at position i
SpanText(c, i) ==
    LET ends == {j \in (i + 1)..Len(c) : IsEndOf(c[j], SpanName)}
        last == IF ends = {} THEN Len(c)
                ELSE (CHOOSE j \in ends : \A m \in ends : j <= m) - 1
    IN  Concat([j \in 1..last |-> IF j > i /\ c[j].t = "text" THEN c[j].s ELSE <<>>],
               1, last)

\* the elements of the container that are no highlight spans, and the end
\* tags that close nothing
IsMarkup(c, i) ==
    \/ c[i].t = "start" /\ c[i].name # SpanName
    \/ c[i].t = "end" /\ c[i].name # SpanName
    \/ /\ IsEndOf(c[i], SpanName)
       /\ \A j \in 1..(i - 1) :
             IsStartOf(c[j], SpanName) =>
                \E m \in (j + 1)..(i - 1) : IsEndOf(c[m], SpanName)

ColorOf(entityType) == DictAt(PyDict(opened.html.colors), entityType)

SpansOf(entityType) == DictAt(PyDict(opened.html.entities), entityType)

HasButton(entityType) ==
    \E i \in 1..Len(createButtons(opened.html)) :
        createButtons(opened.html)[i] = entityType

\* the start tag of a highlight of the entity type's color: the one the
\* script writes for a span of an empty text
HighlightStart(entityType) ==
    highlightEntities([text |-> <<>>,
                       entities |-> << <<entityType, <<[text |-> <<>>, start |-> 0, end |-> 0]>> >> >>,
                       colors |-> << <<entityType, ColorOf(entityType)>> >>],
                      entityType)[1]

\* the length of the run of equal clicks the clicks end with
RECURSIVE TrailingRun(_)
TrailingRun(cs) ==
    IF Len(cs) <= 1 THEN Len(cs)
    ELSE IF cs[Len(cs) - 1] # cs[Len(cs)] THEN 1
    ELSE 1 + TrailingRun(SubSeq(cs, 1, Len(cs) - 1))

\* the entity type last toggled on and not off since, as a set: a type is
\* on after an odd number of clicks on it in a row
ToggledOn(cs) == IF TrailingRun(cs) % 2 = 1 THEN {cs[Len(cs)]} ELSE {}

\* C14: in an opened visualization document, after any sequence of clicks
\* on entity buttons, at most one button is active; the active button, if
\* any, is the one of the entity type last toggled on, and every highlight
\* in the displayed text has that type's color; when no button is active
\* nothing is highlighted, and after a click that toggled a type off the
\* container holds the original text as plain text.
C14_OneActiveControl ==
    opened # PyNone =>
        /\ Cardinality(activeButtons) <= 1
        /\ activeButtons = ToggledOn(clicks)
        /\ \A e \in activeButtons :
              /\ activeEntity = PyStr(e)
              /\ \A i \in SpanStarts(container) : container[i] = HighlightStart(e)
        /\ activeButtons = {} =>
              /\ activeEntity = PyNone
              /\ SpanStarts(container) = {}
              /\ clicks # <<>> => container = textContent(opened.text)

\* a second entity type was toggled on while the first one was active, and
\* its spans are highlighted
C14_Witness ==
    /\ opened # PyNone
    /\ clicks = <<N_Disease, N_Drug>>
    /\ activeButtons = {N_Drug}
    /\ SpanStarts(container) # {}

\* the texts of the span elements of the container, in document order
RECURSIVE SpanTexts(_, _)
SpanTexts(c, n) ==
    IF n = 0 THEN <<>>
    ELSE IF IsStartOf(c[n], SpanName) THEN Append(SpanTexts(c, n - 1), SpanText(c, n))
    ELSE SpanTexts(c, n - 1)

\* a span inside the text, with its start not after its end
InBounds(span, txt) == 0 <= span.start /\ span.start <= span.end /\ span.end <= Len(txt)

\* the substring of the text at the offsets of a span (as much of it as the
\* text has)
SubstringAt(txt, span) ==
    SubSeq(txt, (IF span.start > Len(txt) THEN Len(txt) ELSE span.start) + 1,
                IF span.end > Len(txt) THEN Len(txt) ELSE span.end)

\* the spans by ascending start, those of equal start in their order
RECURSIVE AscendingByStart(_)
AscendingByStart(spans) ==
    IF spans = <<>> THEN <<>>
    ELSE LET least == CHOOSE i \in 1..Len(spans) :
                          /\ \A j \in 1..Len(spans) : spans[i].start <= spans[j].start
                          /\ \A j \in 1..(i - 1) : spans[i].start < spans[j].start
         IN  <<spans[least]>>
             \o AscendingByStart([j \in 1..(Len(spans) - 1) |->
                                     IF j < least THEN spans[j] ELSE spans[j + 1]])

\* the substrings of the text at the offsets of the spans, by ascending start
SubstringsAt(txt, spans) ==
    LET sorted == AscendingByStart(spans)
    IN  [i \in 1..Len(sorted) |-> SubstringAt(txt, sorted[i])]

\* C15: for any record text and any entity type that has a button,
\* toggling the button on highlights exactly the substrings at that type's
\* span offsets, and toggling it off again leaves a displayed text equal to
\* the original text, character for character.
C15_HighlightRoundTrip ==
    opened # PyNone =>
        /\ \A e \in activeButtons :
              SpanTexts(container, Len(container)) = SubstringsAt(opened.text, SpansOf(e))
        /\ (clicks # <<>> /\ activeButtons = {}) =>
              /\ DisplayedText(container) = opened.text
              /\ \A i \in 1..Len(container) : container[i].t = "text"

\* C16: when an entity type with several spans (adjacent and overlapping
\* ones included) is highlighted, each span's highlight wraps exactly the
\* substring of the original text between its offsets, each span appears
\* once, and the characters outside the spans are unchanged: the displayed
\* text is the original text, and the highlights are its substrings at the
\* spans, in the order of their starts.
C16_SeveralSpansUncorrupted ==
    opened # PyNone =>
        \A e \in activeButtons :
            Len(SpansOf(e)) >= 2 =>
                /\ SpanTexts(container, Len(container))
                      = SubstringsAt(opened.text, SpansOf(e))
                /\ DisplayedText(container) = opened.text
                /\ \A i \in 1..Len(container) : ~IsMarkup(container, i)

\* spans that are inside the text and pairwise apart (they may touch)
Disjoint(spans, txt) ==
    /\ \A i \in 1..Len(spans) : InBounds(spans[i], txt)
    /\ \A i, j \in 1..Len(spans) :
          i # j => spans[i].end <= spans[j].start \/ spans[j].end <= spans[i].start

\* C17: all record text placed into the page is escaped: in the default
\* display and in the highlighted display the characters of the record
\* text are rendered as literal text and never interpreted as markup.
\* Stated for the displays C16 and C18 do not concern (no type active, or
\* a type whose spans are inside the text and apart): the container shows
\* the text as it is (as the template embeds it, before any click), and
\* holds no element besides the highlight spans.
C17_TextEscaped ==
    (opened # PyNone /\ \A e \in activeButtons : Disjoint(SpansOf(e), opened.text)) =>
        /\ DisplayedText(container)
              = IF clicks = <<>> THEN EmbeddedText(opened.html) ELSE opened.text
        /\ \A i \in 1..Len(container) : ~IsMarkup(container, i)

\* the document with only the spans that are inside the text
WithoutInvalidSpans(html) ==
    LET Valid_(span) == InBounds(span, html.text)
    IN  [html EXCEPT !.entities =
            [i \in 1..Len(html.entities) |->
                <<html.entities[i][1], SelectSeq(html.entities[i][2], Valid_)>>]]

\* C18: a span whose offsets are out of bounds or inverted does not make
\* the visualization fail: the document is produced, and the span is
\* skipped, that is, the highlighted display is the one of the type's
\* other spans.
C18_InvalidSpansSkipped ==
    opened # PyNone =>
        /\ opened.html.k = "html"
        /\ \A e \in activeButtons :
              container = highlightEntities(WithoutInvalidSpans(opened.html), e)

\* C19: a document offers a button for an entity name if and only if the
\* name is one of the schema's entity names and at least one returned span
\* has that entity type; when no span is returned the document is still
\* produced, with no button and nothing highlighted.
C19_ControlsForTypesWithSpans ==
    opened # PyNone =>
        /\ opened.html.k = "html"
        /\ \A name \in {N_Disease, N_Drug, N_Other} :
              HasButton(name) <=>
                 /\ \E i \in 1..Len(opened.entity_names) : opened.entity_names[i] = name
                 /\ \E i \in 1..Len(opened.result.extractions) :
                       opened.result.extractions[i].extraction_class = name
        /\ opened.result.extractions = <<>> =>
              /\ createButtons(opened.html) = <<>>
              /\ SpanStarts(container) = {}
              /\ activeButtons = {}
        /\ \A i \in 1..Len(clicks) : HasButton(clicks[i])

---------------------------------------------------------------------------
(* The result columns of a run. *)

\* the texts of the extractions of a result whose class is the name, in
\* the order of the result
TextsOfType(result, name) ==
    LET OfType(e) == e.extraction_class = name
        es == SelectSeq(result.extractions, OfType)
    IN  [i \in 1..Len(es) |-> es[i].extraction_text]

\* the value format_extracted_entities gives for the name and these texts
Formatted(name, texts) ==
    PyStr(DictAt(format_extracted_entities(PyDict(<< <<name, texts>> >>)), name))

\* C21: for every successfully extracted record and every entity name, the
\* column value written by extract_data equals format_extracted_entities
\* applied to the texts of the returned spans of that entity type; every
\* entity name has a column, blank for a record without a match and for a
\* record not extracted, and the table has no other column than those of
\* the input and of the entity names: a span of another type contributes to
\* no column.
C21_ColumnsAreFormattedTexts ==
    pc \in {"loop", "try", "done"} =>
        /\ df.columns = uploaded_data.columns \o EntityNames(schema)
        /\ \A i \in 1..Len(EntityNames(schema)) :
              LET name == EntityNames(schema)[i]
              IN  \A r \in 1..N :
                    /\ Succeeded(r) =>
                          CellAt(df, r, name)
                             = Formatted(name, TextsOfType(outcome[r].result, name))
                    /\ (Skipped(r) \/ ~Handled(r)) => CellAt(df, r, name) = PyStr(<<>>)
        /\ pc = "done" => results = df

\* a run has ended in which a record was extracted with two distinct texts
\* of the first entity type, one of them twice and out of order, a span of
\* a type that is no entity name, and no span of the second entity type
C21_Witness ==
    /\ pc = "done"
    /\ Len(EntityNames(schema)) = 2
    /\ \E r \in 1..N :
          /\ Succeeded(r)
          /\ \E i \in 1..Len(outcome[r].result.extractions) :
                outcome[r].result.extractions[i].extraction_class = N_Other
          /\ CellAt(results, r, N_Disease) = PyStr(<<97,59,32,98>>)
          /\ CellAt(results, r, N_Drug) = PyStr(<<>>)

---------------------------------------------------------------------------
(* The results view of render_step4_execution: the download buttons of the *)
(* visualization documents.                                                *)

\* the st.download_button of each of the first ten documents of
\* st.session_state.html_visualizations: label f"📄 Record {i + 1}", the
\* document as data, and its file name
DownloadButtons ==
    LET num_files == Len(html_visualizations)
        shown == IF num_files <= 10 THEN num_files ELSE 10
    IN  IF results = PyNone THEN <<>>
        ELSE [i \in 1..shown |->
                [label |-> <<128196,32,82,101,99,111,114,100,32>> \o Decimal(i),
                 data |-> html_visualizations[i].content,
                 file_name |-> html_visualizations[i].filename]]

\* the number k of a label "📄 Record k"
RecordOfLabel(label) ==
    FileNumber(SubSeq(label, 10, Len(label)) \o <<46,104,116,109,108>>)

\* C22: in the results view the download button labelled "Record k"
\* delivers the visualization document of input record k, the document
\* named "k.html", also after a run in which records were skipped or failed.
C22_ButtonDeliversItsRecord ==
    pc = "done" =>
        \A i \in 1..Len(DownloadButtons) :
            LET k == RecordOfLabel(DownloadButtons[i].label)
            IN  /\ k \in 1..N
                /\ Succeeded(k)
                /\ FileNumber(DownloadButtons[i].file_name) = k
                /\ DownloadButtons[i].data =
                      generate_interactive_html(k, outcome[k].text, outcome[k].result,
                                                EntityNames(schema))

====
